---- MODULE Spec2Model ----
(***************************************************************************)
(* dogtail: a Tailer polls a paginated, rate-limited log-search API through *)
(* a LogSource (Snapshot or Follow window generator, seen-id dedup), pushes *)
(* the records onto a bounded channel, and run_logs consumes the channel:    *)
(* a ConsumerPool routes every record to the output actor of its sink id    *)
(* and, when the channel closes, finish(5) closes and joins the actors.     *)
(* Time is counted in milliseconds on one clock (Instant and Utc alike).    *)
(* An event is [id |-> n, attributes |-> v] with v a JSON value;             *)
(* Option<T> is a sequence of length 0 (None) or 1 (Some).                  *)
(***************************************************************************)
EXTENDS Integers, Sequences, FiniteSets, TLC

\* ------------------------------------------------------------------ bounds
\* Requests one Tailer sends in a run (Follow never stops by itself).
MaxRequests == 3
\* The same, in the rate-limit specification.
MaxRateRequests == 2
\* Capacity of the Tailer's output channel, mpsc::channel(100), scaled down
\* so that a full channel is reached.
ChannelCapacity == 2
\* Calls of the window generator in the generator-only specification.
MaxGenCalls == 3
\* Calls of scale_remaining_by in the scaling-only specification.
MaxScaleCalls == 1

\* ------------------------------------------------------- program constants
BatchSize == 1000
OverlapMs == 10000
JitterLimitMs == 5000
StartClock == 60000

None == <<>>
Some(x) == <<x>>

\* ------------------------------------------------------ serde_json::Value
JsonString(str) == [type |-> "string", str |-> str]
JsonNumber(num) == [type |-> "number", num |-> num]
JsonArray(items) == [type |-> "array", items |-> items]
JsonObject(fields) == [type |-> "object", fields |-> fields]

\* The attributes of the events the server returns, by event id. tags is a
\* list of "key:value" strings (with a non-string element in event 3), already
\* a map in event 4, missing in the others.
RawAttributes(n) ==
    CASE n = 1 -> JsonObject([tags |-> JsonArray(<<JsonString("pod:a"), JsonString("env")>>),
                              timestamp |-> JsonString("t"),
                              status |-> JsonString("OK"),
                              message |-> JsonString("m")])
      [] n = 2 -> JsonObject([tags |-> JsonArray(<<JsonString("pod:b"), JsonString("pod:b")>>),
                              timestamp |-> JsonString("t"),
                              status |-> JsonNumber(200),
                              message |-> JsonString("m")])
      [] n = 3 -> JsonObject([tags |-> JsonArray(<<JsonString("pod:a:x"), JsonNumber(7)>>),
                              hosts |-> JsonArray(<<JsonString("h1"), JsonString("h2")>>),
                              message |-> JsonString("m")])
      [] n = 4 -> JsonObject([tags |-> JsonObject([pod |-> JsonNumber(7)]),
                              message |-> JsonString("m")])
      [] OTHER -> JsonObject([message |-> JsonString("m")])

\* An event as the server returns it.
Ev(n) == [id |-> n, attributes |-> RawAttributes(n)]

\* The event as a Value: an object with the fields id and attributes.
EventValue(e) ==
    JsonObject([id |-> JsonString(ToString(e.id)), attributes |-> e.attributes])

\* str.split(':') of the strings that occur as tags.
Split(str) ==
    CASE str = "pod:a"   -> <<"pod", "a">>
      [] str = "pod:b"   -> <<"pod", "b">>
      [] str = "pod:a:x" -> <<"pod", "a", "x">>
      [] OTHER           -> <<str>>

\* Value::as_str
as_str(v) == IF v.type = "string" THEN Some(v.str) ELSE None

\* Value::get with a string index: only an object can be indexed by a string,
\* an array (indexed by usize only) or a scalar gives None.
Value_get(v, key) ==
    IF v.type = "object" /\ key \in DOMAIN v.fields THEN Some(v.fields[key]) ELSE None

\* JsonKey::get: a JsonKey is the sequence of the segments between the dots;
\* `current = current.get(key)?` for each of them, then a clone of the value.
RECURSIVE JsonKey_get(_, _)
JsonKey_get(key, v) ==
    IF key = <<>> THEN Some(v)
    ELSE LET r == Value_get(v, Head(key))
         IN IF r = None THEN None ELSE JsonKey_get(Tail(key), r[1])

\* unpack_tags leaving the list as it is.
unpack_tags_KeepsList(e) == e

\* unpack_tags: when attributes.tags is an array, it is replaced by the map of
\* its string elements split at ':' (first part the key, second part or "" the
\* value, a later tag of the same key wins); otherwise the event is unchanged.
unpack_tags(e) ==
    LET attrs == e.attributes
    IN IF /\ attrs.type = "object" /\ "tags" \in DOMAIN attrs.fields
          /\ attrs.fields.tags.type = "array"
       THEN LET tags == attrs.fields.tags.items
                strs == {i \in DOMAIN tags : as_str(tags[i]) # None}
                keyOf(i) == Split(tags[i].str)[1]
                valueOf(i) == IF Len(Split(tags[i].str)) >= 2
                              THEN Split(tags[i].str)[2] ELSE ""
                last(k) == CHOOSE i \in strs :
                              /\ keyOf(i) = k
                              /\ \A j \in strs : keyOf(j) = k => j <= i
                unpacked == [k \in {keyOf(i) : i \in strs} |-> JsonString(valueOf(last(k)))]
            IN [e EXCEPT !.attributes.fields.tags = JsonObject(unpacked)]
       ELSE e

Max(a, b) == IF a >= b THEN a ELSE b
Min(a, b) == IF a <= b THEN a ELSE b

\* Instant::duration_since saturates at zero.
DurationSince(later, earlier) == Max(later - earlier, 0)

VARIABLES
    mode,             \* "Snapshot" or "Follow": the LogSource's Mode
    gen,              \* the generator: [next_window_start, next_window_end]
    seen_event_ids,   \* LogSource.seen_event_ids
    last_limit_stats, \* Tailer.last_limit_stats : Option<RateLimitStatus>
    pc,               \* the Tailer task's position in tail / run_query
    window,           \* the (from, to) of the request built by construct_query
    next,             \* run_query's local `next` : Option<url>
    returned,         \* run_query's local `returned`
    pending,          \* the extracted records still to be sent on event_sink
    tail_state,       \* "running", "stopped" (Ok(None)) or "failed" (Err)
    queue,            \* the contents of the mpsc channel
    consumer,         \* run_logs' loop: "recv", "finished", "failed"
    consumed,         \* the events pool.consume accepted, in order
    now,              \* the clock, in ms
    config,           \* the run's arguments: [from, history] (history in s)
    declared_reset,   \* history: the reset time the last response declared
    http_log,         \* history: every request sent, with its response
    pushed,           \* history: every record sent on event_sink, in order
    extract_log,      \* history: every extract_results call, page and result
    gen_log,          \* history: every item the generator returned
    scale_log,        \* history: every scale_remaining_by call
    log,              \* history: the info/warn/error lines of the Tailer task
    out,              \* the OutputMode: [mode, split_key, default]
    sinks,            \* ConsumerPool.sinks : sink id -> index into actors
    actors,           \* every output actor spawned, in spawning order
    inhand,           \* the event pool.consume is working on : Option<event>
    finish,           \* ConsumerPool::finish: [state, called_at, deadline] and, as
                      \* history, [returned_at, abandoned, written_then]
    outcome           \* run_logs: "running", "ok" (Ok(())) or "err" (Err, main panics)

vars == <<mode, gen, seen_event_ids, last_limit_stats, pc, window, next,
          returned, pending, tail_state, queue, consumer, consumed, now,
          config, declared_reset, http_log, pushed, extract_log, gen_log, scale_log,
          log, out, sinks, actors, inhand, finish, outcome>>

sourceVars == <<mode, gen, seen_event_ids, config>>
tailerVars == <<last_limit_stats, pc, window, next, returned, pending, tail_state>>
poolVars == <<out, sinks, actors, inhand, finish, outcome>>
consumerVars == <<consumer, consumed, poolVars>>
historyVars == <<declared_reset, http_log, pushed, extract_log, gen_log, scale_log, log>>

\* ------------------------------------------------------------- LogFormat

\* The keys of the objects of the model in the order of serde_json's Map (a
\* BTreeMap: sorted).
KeyOrder == <<"attributes", "hosts", "id", "message", "pod", "status", "tags", "timestamp">>

\* format!("{:?}", value) of serde_json's Value: Number(200), String("h1"),
\* Array [..], Object {"k": ..}.
RECURSIVE Debug(_)
RECURSIVE DebugItems(_)
RECURSIVE DebugEntries(_, _)
Debug(v) ==
    CASE v.type = "string" -> "String(\"" \o v.str \o "\")"
      [] v.type = "number" -> "Number(" \o ToString(v.num) \o ")"
      [] v.type = "array"  -> "Array [" \o DebugItems(v.items) \o "]"
      [] OTHER             -> "Object {" \o DebugEntries(v.fields, KeyOrder) \o "}"

DebugItems(items) ==
    IF items = <<>> THEN ""
    ELSE IF Len(items) = 1 THEN Debug(items[1])
    ELSE Debug(items[1]) \o ", " \o DebugItems(Tail(items))

DebugEntries(fields, order) ==
    LET present == SelectSeq(order, LAMBDA k : k \in DOMAIN fields)
        entry(k) == "\"" \o k \o "\": " \o Debug(fields[k])
    IN IF present = <<>> THEN ""
       ELSE IF Len(present) = 1 THEN entry(present[1])
       ELSE entry(present[1]) \o ", " \o DebugEntries(fields, Tail(present))

\* LogFormat::text(sep, keys)
LogFormat_text(sep, keys) == [sep |-> sep, keys |-> keys]

\* LogFormat::default()
LogFormat_default ==
    LogFormat_text(" | ", <<<<"attributes", "timestamp">>, <<"attributes", "status">>,
                            <<"attributes", "message">>>>)

\* format_text, lines 149-153 and 157-161: what one key adds to the output.
push_key(output, key, event) ==
    LET value == JsonKey_get(key, EventValue(event))
    IN IF value # None
       THEN output \o (IF as_str(value[1]) # None THEN as_str(value[1])[1]
                       ELSE Debug(value[1]))
       ELSE output \o "KEY_NOT_FOUND"

\* format_text, lines 155-162: `for key in rest`.
RECURSIVE format_rest(_, _, _, _)
format_rest(output, sep, rest, event) ==
    IF rest = <<>> THEN output
    ELSE format_rest(push_key(output \o sep, Head(rest), event), sep, Tail(rest), event)

\* format_text with the separator in front of every key, the first included.
format_text_SepFirst(sep, keys, event) ==
    [ok |-> keys # <<>>, line |-> format_rest("", sep, keys, event)]

\* LogFormat::format_text: keys.split_first().unwrap() panics on an empty list
\* of keys (ok is FALSE); otherwise the first key, then sep and key for the rest.
format_text(sep, keys, event) ==
    IF keys = <<>> THEN [ok |-> FALSE, line |-> ""]
    ELSE [ok |-> TRUE,
          line |-> format_rest(push_key("", Head(keys), event), sep, Tail(keys), event)]

\* ------------------------------------------------------- window generators

\* Snapshot::new(from, window)
Snapshot_new(from, history) ==
    [next_window_start |-> from, next_window_end |-> Some(from + history * 1000)]

\* Follow::new(initial_window), called at time t
Follow_new(history, t) ==
    [next_window_start |-> t - history * 1000, next_window_end |-> Some(t)]

\* next() reading next_window_end without taking it.
Snapshot_next_Repeats(g) ==
    [item |-> IF g.next_window_end = None THEN None
              ELSE Some(<<g.next_window_start, g.next_window_end[1]>>),
     gen |-> g]

\* <Snapshot as Iterator>::next : `take()?` leaves None behind
Snapshot_next(g) ==
    IF g.next_window_end = None
    THEN [item |-> None, gen |-> g]
    ELSE [item |-> Some(<<g.next_window_start, g.next_window_end[1]>>),
          gen  |-> [g EXCEPT !.next_window_end = None]]

\* next() whose following window starts where this one ends, with no overlap.
Follow_next_NoOverlap(g, t) ==
    LET end == IF g.next_window_end = None THEN t ELSE g.next_window_end[1]
    IN [item |-> Some(<<g.next_window_start, end>>),
        gen  |-> [next_window_start |-> end, next_window_end |-> None]]

\* <Follow as Iterator>::next, called at time t
Follow_next(g, t) ==
    LET end == IF g.next_window_end = None THEN t ELSE g.next_window_end[1]
    IN [item |-> Some(<<g.next_window_start, end>>),
        gen  |-> [next_window_start |-> end - OverlapMs, next_window_end |-> None]]

Mode_next(m, g, t) == IF m = "Snapshot" THEN Snapshot_next(g) ELSE Follow_next(g, t)

\* ------------------------------------------------------------- LogSource

\* Retain with the insert forgotten: ids are tested but never recorded.
Retain_NeverRecords(events, seen) ==
    [kept |-> SelectSeq(events, LAMBDA e : e.id \notin seen), seen |-> seen]

\* events.retain(|event| seen_event_ids.insert(id)) : left to right, an event is
\* kept exactly when the insert found its id new.
RECURSIVE Retain(_, _)
Retain(events, seen) ==
    IF events = <<>>
    THEN [kept |-> <<>>, seen |-> seen]
    ELSE LET e == Head(events)
             r == Retain(Tail(events), seen \cup {e.id})
         IN [kept |-> IF e.id \in seen THEN r.kept ELSE <<e>> \o r.kept,
             seen |-> r.seen]

\* extract_results without the retain: every event of the page is returned.
extract_results_KeepsAll(body, seen) ==
    IF body.data = "missing" THEN [ok |-> TRUE, kept |-> <<>>, seen |-> seen]
    ELSE IF body.data # "array" THEN [ok |-> FALSE, kept |-> <<>>, seen |-> seen]
    ELSE [ok |-> TRUE, kept |-> [i \in DOMAIN body.events |-> unpack_tags(body.events[i])],
          seen |-> seen \cup {body.events[i].id : i \in DOMAIN body.events}]

\* extract_results taking anything that is not an array for an empty page.
extract_results_EmptyOnMalformed(body, seen) ==
    IF body.data # "array" THEN [ok |-> TRUE, kept |-> <<>>, seen |-> seen]
    ELSE LET r == Retain([i \in DOMAIN body.events |-> unpack_tags(body.events[i])], seen)
         IN [ok |-> TRUE, kept |-> r.kept, seen |-> r.seen]

\* LogSource::extract_results. A body is [data, events, link, url]:
\* data is "array", "missing" or "other"; link is "absent", "string" or "other".
extract_results(body, seen) ==
    IF body.data = "missing" THEN [ok |-> TRUE, kept |-> <<>>, seen |-> seen]
    ELSE IF body.data # "array" THEN [ok |-> FALSE, kept |-> <<>>, seen |-> seen]
    ELSE LET r == Retain([i \in DOMAIN body.events |-> unpack_tags(body.events[i])], seen)
         IN [ok |-> TRUE, kept |-> r.kept, seen |-> r.seen]

\* Source::extract_next (the default implementation)
extract_next(body) ==
    IF body.link = "absent" THEN [ok |-> TRUE, next |-> None]
    ELSE IF body.link = "string" THEN [ok |-> TRUE, next |-> Some(body.url)]
    ELSE [ok |-> FALSE, next |-> None]

\* ------------------------------------------------------- RateLimitStatus

\* A tracker state that takes the reset for already over.
RateLimitStatus_from_ResetNow(hdr, t) ==
    [period |-> hdr.period * 1000,
     remaining_budget |-> hdr.remaining,
     next_request_allowed |-> t]

\* From<&Response>: headers in seconds, read at time t
RateLimitStatus_from(hdr, t) ==
    [period |-> hdr.period * 1000,
     remaining_budget |-> hdr.remaining,
     next_request_allowed |-> t + hdr.reset * 1000]

\* pause sleeping for the jitter only.
pause_JitterOnly(s, t, jitter) == t + jitter

\* RateLimitStatus::pause called at time t with the drawn jitter: the time at
\* which the sleep ends
pause(s, t, jitter) == t + DurationSince(s.next_request_allowed, t) + jitter

\* scale_remaining_by without the test of remaining_budget.
scale_remaining_by_IgnoresBudget(s, cnt, limit, t) ==
    LET desired_wait == (s.period * (limit - cnt)) \div limit
        wait == Max(Min(desired_wait, DurationSince(s.next_request_allowed, t)), 0)
    IN [s EXCEPT !.next_request_allowed = t + wait]

\* scale_remaining_by without the min against the time left until the reset.
scale_remaining_by_NoCap(s, cnt, limit, t) ==
    LET desired_wait == (s.period * (limit - cnt)) \div limit
        wait == Max(desired_wait, 0)
    IN IF s.remaining_budget > 0
       THEN [s EXCEPT !.next_request_allowed = t + wait]
       ELSE s

\* RateLimitStatus::scale_remaining_by at time t. period_ms * (1 - returned/limit)
\* is computed in integers; the result is truncated to whole ms as `wait as u64`.
scale_remaining_by(s, cnt, limit, t) ==
    LET desired_wait == (s.period * (limit - cnt)) \div limit
        wait == Max(Min(desired_wait, DurationSince(s.next_request_allowed, t)), 0)
    IN IF s.remaining_budget > 0
       THEN [s EXCEPT !.next_request_allowed = t + wait]
       ELSE s

is_success(status) == status >= 200 /\ status <= 299

\* handle_error matching no status: a 429 is an Err like any other.
handle_error_NeverAbsorbs(status, returned_so_far) == [ok |-> FALSE, value |-> 0]

\* handle_error absorbing every status.
handle_error_AbsorbsAll(status, returned_so_far) == [ok |-> TRUE, value |-> returned_so_far]

\* Tailer::handle_error: TOO_MANY_REQUESTS is absorbed (Ok(returned_so_far)),
\* every other status is an Err.
handle_error(status, returned_so_far) ==
    IF status = 429
    THEN [ok |-> TRUE, value |-> returned_so_far]
    ELSE [ok |-> FALSE, value |-> 0]

\* ------------------------------------------------------------ the server
NoBody == [data |-> "missing", events |-> <<>>, link |-> "absent", url |-> ""]

\* A response: the transport failed, or a status with headers and a body.
HttpResponse(st, h, b) == [transport |-> "ok", status |-> st, hdr |-> h, body |-> b]

TransportFailure ==
    [transport |-> "failed", status |-> 0,
     hdr |-> [period |-> 1, remaining |-> 0, reset |-> 0], body |-> NoBody]

Page(events, link, url) == [data |-> "array", events |-> events, link |-> link, url |-> url]

\* Malformed or unusual success bodies: links.next not a string, data not an
\* array, no data field.
OddBodies ==
    {Page(<<Ev(4)>>, "other", ""),
     [data |-> "other", events |-> <<>>, link |-> "absent", url |-> ""],
     NoBody}

\* Inputs of the data-flow specification: pages with overlapping and repeated
\* ids, without a continuation link or with one of two ("u1", "u2"), under one
\* rate-limit header (period and reset in s).
PageSet == {<<Ev(1), Ev(2)>>, <<Ev(2), Ev(3)>>, <<Ev(4)>>, <<Ev(1), Ev(1)>>}
PlainHeader == [period |-> 1, remaining |-> 1, reset |-> 1]

DataResponses ==
    {HttpResponse(200, PlainHeader, Page(p, "absent", "")) : p \in PageSet}
    \cup {HttpResponse(200, PlainHeader, Page(p, "string", "u1")) : p \in PageSet}
    \cup {HttpResponse(200, PlainHeader, Page(<<Ev(2), Ev(3)>>, "string", "u2"))}
    \cup {HttpResponse(200, PlainHeader, b) : b \in OddBodies}
    \cup {HttpResponse(st, PlainHeader, NoBody) : st \in {429, 500}}
    \cup {TransportFailure}

\* Inputs of the rate-limit specification: every combination of headers, a
\* jitter at both ends of [0, 5 s), some latency, and small pages.
HeaderSet == [period : {1}, remaining : {0, 1}, reset : {0, 2}]
JitterSet == {0, JitterLimitMs - 1}
LatencySet == {0, 40}

RateResponses ==
    {HttpResponse(200, h, Page(<<Ev(1)>>, "absent", "")) : h \in HeaderSet}
    \cup {HttpResponse(200, h, Page(<<Ev(2)>>, "string", "u1")) : h \in HeaderSet}
    \cup {HttpResponse(st, h, NoBody) : st \in {429, 500}, h \in HeaderSet}
    \cup {TransportFailure}

\* ------------------------------------------------------------- the Tailer

\* Tailer::send, the part before the request leaves: the time the request is
\* sent, after pause() of the state taken out of last_limit_stats. The response
\* headers are read at that time (a round trip of no duration); `latency` is
\* the time reading the body takes afterwards.
SendTime(jitter) ==
    IF last_limit_stats = None THEN now ELSE pause(last_limit_stats[1], now, jitter)

Exchange(kind, target, jitter, latency, r) ==
    [kind |-> kind, target |-> target, sentAt |-> SendTime(jitter),
     gate |-> last_limit_stats, jitter |-> jitter, draws |-> Len(gen_log),
     pushedBefore |-> pushed, resp |-> r,
     recvAt |-> SendTime(jitter) + latency]

\* The reset time a response declares: x-ratelimit-reset seconds after its
\* headers are read.
DeclaredReset(x) ==
    IF x.resp.transport = "failed" THEN None
    ELSE Some(x.sentAt + x.resp.hdr.reset * 1000)

\* A line of the Tailer task's log of level info or above. The debug lines
\* (tailer.rs 115, 190, 203, 224, 230) report progress only and are left out.
LogLine(level, msg, count) == [level |-> level, msg |-> msg, count |-> count]

\* tail() returns on Err: the error is dropped by `while let Ok(Some(count))`,
\* the task ends and the Sender is dropped.
Fail ==
    /\ tail_state' = "failed"
    /\ pc' = "done"

\* run_query, lines 88-91: construct_query draws the next window of the mode;
\* None ends the task.
ConstructQuery ==
    /\ tail_state = "running" /\ pc = "run_query"
    /\ LET r == Mode_next(mode, gen, now)
       IN /\ gen' = r.gen
          /\ gen_log' = Append(gen_log, r.item)
          /\ IF r.item = None
             THEN /\ tail_state' = "stopped" /\ pc' = "done"
                  /\ log' = Append(log, LogLine("info", "Source returned None, stopping", 0))
                  /\ UNCHANGED window
             ELSE /\ window' = r.item[1] /\ pc' = "send_first"
                  /\ UNCHANGED <<tail_state, log>>
    /\ UNCHANGED <<mode, config, seen_event_ids, last_limit_stats, next, returned,
                   pending, queue, consumerVars, now, declared_reset, http_log, pushed,
                   extract_log, scale_log>>

\* run_query, lines 93-103 and the extraction of line 105: the POST is sent
\* after the pause, the response replaces the tracker state, then the status
\* and the body decide.
SendFirst(r, jitter, latency) ==
    /\ tail_state = "running" /\ pc = "send_first"
    /\ LET x == Exchange("POST", window, jitter, latency, r)
           nx == extract_next(r.body)
           res == extract_results(r.body, seen_event_ids)
       IN /\ http_log' = Append(http_log, x)
          /\ now' = x.recvAt
          /\ declared_reset' = DeclaredReset(x)
          /\ IF r.transport = "failed"
             THEN /\ last_limit_stats' = None
                  /\ Fail
                  /\ UNCHANGED <<seen_event_ids, next, returned, pending, extract_log, log>>
             ELSE /\ last_limit_stats' = Some(RateLimitStatus_from(r.hdr, x.sentAt))
                  /\ IF ~is_success(r.status)
                     THEN \* handle_error(first, 0); Ok(Some(0)) goes back to tail
                          /\ IF handle_error(r.status, 0).ok
                             THEN /\ pc' = "run_query" /\ UNCHANGED tail_state
                                  /\ log' = log \o
                                       <<LogLine("warn", "Got too_many_requests", 0),
                                         LogLine("info", "Returned events",
                                                 handle_error(r.status, 0).value)>>
                             ELSE Fail /\ UNCHANGED log
                          /\ UNCHANGED <<seen_event_ids, next, returned, pending, extract_log>>
                     ELSE IF ~nx.ok
                     THEN /\ Fail
                          /\ UNCHANGED <<seen_event_ids, next, returned, pending, extract_log, log>>
                     ELSE IF ~res.ok
                     THEN /\ Fail
                          /\ UNCHANGED <<seen_event_ids, next, returned, pending, extract_log, log>>
                     ELSE /\ next' = nx.next
                          /\ returned' = 0
                          /\ seen_event_ids' = res.seen
                          /\ pending' = res.kept
                          /\ extract_log' = Append(extract_log,
                                 [body |-> r.body, kept |-> res.kept])
                          /\ pc' = "push_first"
                          /\ UNCHANGED <<tail_state, log>>
    /\ UNCHANGED <<mode, gen, config, window, queue, consumerVars, pushed, gen_log,
                   scale_log>>

\* A send that gives up the record when the channel is full (try_send).
Push_DropsWhenFull(at) ==
    /\ tail_state = "running" /\ pc = at /\ pending # <<>>
    /\ queue' = IF Len(queue) < ChannelCapacity THEN Append(queue, Head(pending))
                ELSE queue
    /\ pushed' = Append(pushed, Head(pending))
    /\ returned' = returned + 1
    /\ pending' = Tail(pending)
    /\ pc' = IF at = "push_next" /\ Tail(pending) = <<>> THEN "follow" ELSE at
    /\ UNCHANGED <<sourceVars, last_limit_stats, window, next, tail_state, consumerVars,
                   now, declared_reset, http_log, extract_log, gen_log, scale_log, log>>

\* event_sink.send(v).await of lines 105-108 and 133-136: waits while the
\* channel is full, fails once the Receiver is gone.
Push(at) ==
    /\ tail_state = "running" /\ pc = at /\ pending # <<>>
    /\ IF consumer = "failed"
       THEN /\ Fail
            /\ UNCHANGED <<returned, pending, queue, pushed>>
       ELSE /\ Len(queue) < ChannelCapacity
            /\ queue' = Append(queue, Head(pending))
            /\ pushed' = Append(pushed, Head(pending))
            /\ returned' = returned + 1
            /\ pending' = Tail(pending)
            /\ pc' = IF at = "push_next" /\ Tail(pending) = <<>> THEN "follow" ELSE at
            /\ UNCHANGED tail_state
    /\ UNCHANGED <<sourceVars, last_limit_stats, window, next, consumerVars, now,
                   declared_reset, http_log, extract_log, gen_log, scale_log, log>>

PushFirst == Push("push_first")

PushNext == Push("push_next")

\* The scaling after the first page taking the page for a full one.
ScaleFirst_FullPage(delay) ==
    /\ tail_state = "running" /\ pc = "push_first" /\ pending = <<>>
    /\ now' = now + delay
    /\ last_limit_stats' =
           IF last_limit_stats = None THEN None
           ELSE Some(scale_remaining_by(last_limit_stats[1], BatchSize, BatchSize, now'))
    /\ scale_log' = Append(scale_log,
           [before |-> last_limit_stats, cnt |-> BatchSize, limit |-> BatchSize,
            at |-> now', after |-> last_limit_stats', reset_at |-> declared_reset,
            requests |-> Len(http_log)])
    /\ pc' = "follow"
    /\ UNCHANGED <<sourceVars, window, next, returned, pending, tail_state, queue,
                   consumerVars, declared_reset, http_log, pushed, extract_log, gen_log,
                   log>>

\* run_query, lines 110-112: after the first page is pushed, the tracker state
\* is scaled by the count returned so far; `delay` is the time the pushes took.
ScaleFirst(delay) ==
    /\ tail_state = "running" /\ pc = "push_first" /\ pending = <<>>
    /\ now' = now + delay
    /\ last_limit_stats' =
           IF last_limit_stats = None THEN None
           ELSE Some(scale_remaining_by(last_limit_stats[1], returned, BatchSize, now'))
    /\ scale_log' = Append(scale_log,
           [before |-> last_limit_stats, cnt |-> returned, limit |-> BatchSize,
            at |-> now', after |-> last_limit_stats', reset_at |-> declared_reset,
            requests |-> Len(http_log)])
    /\ pc' = "follow"
    /\ UNCHANGED <<sourceVars, window, next, returned, pending, tail_state, queue,
                   consumerVars, declared_reset, http_log, pushed, extract_log, gen_log,
                   log>>

\* run_query, lines 114-131: one hop of the continuation loop.
SendNext(r, jitter, latency) ==
    /\ tail_state = "running" /\ pc = "follow" /\ next # None
    /\ LET x == Exchange("GET", next[1], jitter, latency, r)
           nx == extract_next(r.body)
           res == extract_results(r.body, seen_event_ids)
           fresh == RateLimitStatus_from(r.hdr, x.sentAt)
           scaled == scale_remaining_by(fresh, Len(res.kept), BatchSize, x.recvAt)
       IN /\ http_log' = Append(http_log, x)
          /\ now' = x.recvAt
          /\ declared_reset' = DeclaredReset(x)
          /\ IF r.transport = "failed"
             THEN /\ last_limit_stats' = None
                  /\ Fail
                  /\ UNCHANGED <<seen_event_ids, next, pending, extract_log, scale_log, log>>
             ELSE IF ~is_success(r.status)
             THEN \* handle_error(response, returned)?; continue
                  /\ last_limit_stats' = Some(fresh)
                  /\ IF handle_error(r.status, returned).ok
                     THEN /\ UNCHANGED <<pc, tail_state>>
                          /\ log' = Append(log, LogLine("warn", "Got too_many_requests", 0))
                     ELSE Fail /\ UNCHANGED log
                  /\ UNCHANGED <<seen_event_ids, next, pending, extract_log, scale_log>>
             ELSE IF ~nx.ok
             THEN /\ last_limit_stats' = Some(fresh)
                  /\ Fail
                  /\ UNCHANGED <<seen_event_ids, next, pending, extract_log, scale_log, log>>
             ELSE IF ~res.ok
             THEN /\ last_limit_stats' = Some(fresh)
                  /\ Fail
                  /\ UNCHANGED <<seen_event_ids, next, pending, extract_log, scale_log, log>>
             ELSE /\ next' = nx.next
                  /\ seen_event_ids' = res.seen
                  /\ extract_log' = Append(extract_log, [body |-> r.body, kept |-> res.kept])
                  /\ last_limit_stats' = Some(scaled)
                  /\ scale_log' = Append(scale_log,
                         [before |-> Some(fresh), cnt |-> Len(res.kept), limit |-> BatchSize,
                          at |-> x.recvAt, after |-> Some(scaled),
                          reset_at |-> DeclaredReset(x),
                          requests |-> Len(http_log) + 1])
                  /\ pending' = res.kept
                  /\ pc' = IF res.kept = <<>> THEN "follow" ELSE "push_next"
                  /\ UNCHANGED <<tail_state, log>>
    /\ UNCHANGED <<mode, gen, config, window, returned, queue, consumerVars, pushed,
                   gen_log>>

\* run_query, line 139, and tail's loop body (line 51): Ok(Some(returned)) is
\* logged and the next iteration starts.
EndQuery ==
    /\ tail_state = "running" /\ pc = "follow" /\ next = None
    /\ pc' = "run_query"
    /\ log' = Append(log, LogLine("info", "Returned events", returned))
    /\ UNCHANGED <<sourceVars, last_limit_stats, window, next, returned, pending,
                   tail_state, queue, consumerVars, now, declared_reset, http_log,
                   pushed, extract_log, gen_log, scale_log>>

\* ------------------------------------------------ run_logs' consumer loop

\* tail.recv() returned Some(event); pool.consume(event).await? either accepts
\* it or fails, and a failure returns from run_logs, dropping the Receiver.
ConsumerRecv(accepted) ==
    /\ consumer = "recv" /\ queue # <<>>
    /\ IF accepted
       THEN /\ consumed' = Append(consumed, Head(queue))
            /\ queue' = Tail(queue)
            /\ UNCHANGED consumer
       ELSE /\ consumer' = "failed"
            /\ queue' = <<>>
            /\ UNCHANGED consumed
    /\ UNCHANGED <<sourceVars, tailerVars, now, historyVars, poolVars>>

\* A loop that ends as soon as the Sender is dropped, whatever is still
\* buffered in the channel.
ConsumerEnd_OnSenderDrop ==
    /\ consumer = "recv" /\ tail_state # "running"
    /\ consumer' = "finished"
    /\ queue' = <<>>
    /\ UNCHANGED <<sourceVars, tailerVars, consumed, now, historyVars, poolVars>>

\* A loop that ends when it finds the channel empty (try_recv), the Tailer
\* still running or not.
ConsumerEnd_OnEmpty ==
    /\ consumer = "recv" /\ queue = <<>>
    /\ consumer' = "finished"
    /\ UNCHANGED <<sourceVars, tailerVars, queue, consumed, now, historyVars, poolVars>>

\* A loop that ends only after the Tailer stopped for want of a window: when
\* the Tailer's task ended on an error recv() keeps waiting.
ConsumerEnd_NeedsStopped ==
    /\ consumer = "recv" /\ queue = <<>> /\ tail_state = "stopped"
    /\ consumer' = "finished"
    /\ UNCHANGED <<sourceVars, tailerVars, queue, consumed, now, historyVars, poolVars>>

\* tail.recv() returned None: every Sender is dropped and the channel is
\* empty; pool.finish(5) follows.
ConsumerEnd ==
    /\ consumer = "recv" /\ queue = <<>> /\ tail_state # "running"
    /\ consumer' = "finished"
    /\ UNCHANGED <<sourceVars, tailerVars, queue, consumed, now, historyVars, poolVars>>

\* ------------------------------------------------ OutputMode, the SinkSet

\* OutputMode::get_sink_id: self.mode is not consulted.
get_sink_id(o, e) ==
    IF o.split_key = None THEN o.default
    ELSE LET v == JsonKey_get(o.split_key[1], EventValue(e))
         IN IF v # None /\ as_str(v[1]) # None THEN as_str(v[1])[1] ELSE o.default

\* OutputMode::construct_output: a channel and a spawned writer task. `received`
\* is history: every message sent into the channel, in order.
construct_output(o, e) ==
    [id |-> get_sink_id(o, e), kind |-> o.mode, inbox |-> <<>>, open |-> TRUE,
     state |-> "starting", received |-> <<>>, written |-> <<>>, lines |-> <<>>]

\* ---------------------------------------------------------- ConsumerPool
\* Capacity of an actor's input channel, mpsc::channel(100), scaled down.
SinkCapacity == 1
\* The step of the clock while finish waits, in ms.
TickMs == 2500
\* pool.finish(5)
FinishWaitMs == 5000

Range(f) == {f[k] : k \in DOMAIN f}

SetMax(S) == CHOOSE x \in S : \A y \in S : y <= x

\* The task has ended and its JoinHandle resolves: it returned or it panicked.
Done(a) == a.state \in {"exited", "panicked"}

\* An entry that is replaced by a fresh actor on every event.
or_insert_with_Always(reg, acts, id, fresh) ==
    [sinks |-> (id :> Len(acts) + 1) @@ reg, actors |-> Append(acts, fresh)]

\* self.sinks.entry(id).or_insert_with(|| construct_output(..)): the actor is
\* constructed only when the id has no entry.
or_insert_with(reg, acts, id, fresh) ==
    IF id \in DOMAIN reg THEN [sinks |-> reg, actors |-> acts]
    ELSE [sinks |-> reg @@ (id :> Len(acts) + 1), actors |-> Append(acts, fresh)]

\* run_logs lines 132-134 and consume lines 53-59: tail.recv() returned
\* Some(event); its sink is looked up, constructed if the id is new.
ConsumeStart ==
    /\ consumer = "recv" /\ queue # <<>>
    /\ LET e == Head(queue)
           r == or_insert_with(sinks, actors, get_sink_id(out, e), construct_output(out, e))
       IN /\ queue' = Tail(queue)
          /\ inhand' = Some(e)
          /\ sinks' = r.sinks
          /\ actors' = r.actors
          /\ consumer' = "consume"
    /\ UNCHANGED <<sourceVars, tailerVars, consumed, now, historyVars, out, finish,
                   outcome>>

\* A send that puts the message into the first actor's channel.
ConsumeSend_ToFirst ==
    /\ consumer = "consume"
    /\ Len(actors[1].inbox) < SinkCapacity
    /\ actors' = [actors EXCEPT ![1].inbox = Append(@, inhand[1]),
                                ![1].received = Append(@, inhand[1])]
    /\ consumed' = Append(consumed, inhand[1])
    /\ inhand' = None
    /\ consumer' = "recv"
    /\ UNCHANGED <<queue, outcome>>
    /\ UNCHANGED <<sourceVars, tailerVars, now, historyVars, out, sinks, finish>>

\* consume line 61, sink.send(..).await?: waits while the actor's channel is
\* full; once the actor's Receiver is gone the send fails, run_logs returns the
\* Err (line 134) without calling finish, its locals (the Tailer's Receiver and
\* the pool with every Sender) are dropped and main's unwrap panics.
ConsumeSend ==
    /\ consumer = "consume"
    /\ LET i == sinks[get_sink_id(out, inhand[1])]
       IN IF actors[i].state = "panicked"
          THEN /\ consumer' = "failed"
               /\ queue' = <<>>
               /\ inhand' = None
               /\ actors' = [j \in DOMAIN actors |-> [actors[j] EXCEPT !.open = FALSE]]
               /\ outcome' = "err"
               /\ UNCHANGED consumed
          ELSE /\ Len(actors[i].inbox) < SinkCapacity
               /\ actors' = [actors EXCEPT ![i].inbox = Append(@, inhand[1]),
                                           ![i].received = Append(@, inhand[1])]
               /\ consumed' = Append(consumed, inhand[1])
               /\ inhand' = None
               /\ consumer' = "recv"
               /\ UNCHANGED <<queue, outcome>>
    /\ UNCHANGED <<sourceVars, tailerVars, now, historyVars, out, sinks, finish>>

\* ------------------------------------------- file_writer and stdout_writer

\* The writer task starts: file_writer opens its file with unwrap (a failure
\* panics the task); stdout_writer takes the process's stdout.
ActorStart(i, ok) ==
    /\ actors[i].state = "starting"
    /\ ok \/ actors[i].kind = "File"
    /\ actors' = IF ok THEN [actors EXCEPT ![i].state = "running"]
                 ELSE [actors EXCEPT ![i].state = "panicked", ![i].inbox = <<>>]
    /\ UNCHANGED <<sourceVars, tailerVars, queue, consumer, consumed, now, historyVars,
                   out, sinks, inhand, finish, outcome>>

\* A writer that stops at the first message of a closed channel.
ActorWrite_StopsWhenClosed(i, ok) ==
    /\ actors[i].state = "running" /\ actors[i].inbox # <<>>
    /\ actors' = IF ~actors[i].open
                 THEN [actors EXCEPT ![i].state = "exited", ![i].inbox = <<>>]
                 ELSE [actors EXCEPT ![i].written = Append(@, Head(actors[i].inbox)),
                                     ![i].lines = Append(@,
                                         format_text(out.format.sep, out.format.keys,
                                                     Head(actors[i].inbox)).line),
                                     ![i].inbox = Tail(@)]
    /\ UNCHANGED <<sourceVars, tailerVars, queue, consumer, consumed, now, historyVars,
                   out, sinks, inhand, finish, outcome>>

\* One turn of `while let Some(msg) = recv.recv().await`: the message is
\* formatted, written and flushed, each with unwrap; a panic in format or a
\* failed write (~ok) ends the task, which drops the Receiver and with it the
\* messages still buffered. `lines` is what has been written, line by line.
ActorWrite(i, ok) ==
    /\ actors[i].state = "running" /\ actors[i].inbox # <<>>
    /\ LET f == format_text(out.format.sep, out.format.keys, Head(actors[i].inbox))
       IN actors' = IF f.ok /\ ok
                    THEN [actors EXCEPT ![i].written = Append(@, Head(actors[i].inbox)),
                                        ![i].lines = Append(@, f.line),
                                        ![i].inbox = Tail(@)]
                    ELSE [actors EXCEPT ![i].state = "panicked", ![i].inbox = <<>>]
    /\ UNCHANGED <<sourceVars, tailerVars, queue, consumer, consumed, now, historyVars,
                   out, sinks, inhand, finish, outcome>>

\* recv() returns None: the channel is empty and its Sender is dropped.
ActorExit(i) ==
    /\ actors[i].state = "running" /\ actors[i].inbox = <<>> /\ ~actors[i].open
    /\ actors' = [actors EXCEPT ![i].state = "exited"]
    /\ UNCHANGED <<sourceVars, tailerVars, queue, consumer, consumed, now, historyVars,
                   out, sinks, inhand, finish, outcome>>

\* ------------------------------------------------- ConsumerPool::finish

\* Sink::finish, line 88: drop(self.sender)
drop_sender(a) == [a EXCEPT !.open = FALSE]

\* Waits that start one after the other, each when the one before is over.
FinishDeadlines_InTurn(joined, t, wait) ==
    [i \in joined |-> t + wait * Cardinality({j \in joined : j <= i})]

\* join_all over Sink::finish: every future is polled in the first poll of
\* join_all, so every timeout(wait, handle) starts then.
FinishDeadlines(joined, t, wait) == [i \in joined |-> t + wait]

\* run_logs line 137, finish lines 67-74: the loop of run_logs has ended, the
\* registry is drained, every Sender is dropped and every wait begins.
FinishStart ==
    /\ consumer = "finished" /\ finish.state = "idle"
    /\ finish' = [finish EXCEPT !.state = "waiting", !.called_at = now,
                    !.deadline = FinishDeadlines(Range(sinks), now, FinishWaitMs)]
    /\ actors' = [i \in DOMAIN actors |->
                    IF i \in Range(sinks) THEN drop_sender(actors[i]) ELSE actors[i]]
    /\ sinks' = <<>>
    /\ UNCHANGED <<sourceVars, tailerVars, queue, consumer, consumed, now, historyVars,
                   out, inhand, outcome>>

\* The waits of finish that are still running.
Waited == {i \in DOMAIN finish.deadline : ~Done(actors[i]) /\ now < finish.deadline[i]}

\* Time passes while finish waits, up to the next timeout.
Tick ==
    /\ finish.state = "waiting" /\ Waited # {}
    /\ now' = Min(now + TickMs, SetMax({finish.deadline[i] : i \in Waited}))
    /\ UNCHANGED <<sourceVars, tailerVars, queue, consumerVars, historyVars>>

\* A timeout that aborts the task it waited for.
FinishReturn_Aborts ==
    /\ finish.state = "waiting" /\ Waited = {}
    /\ finish' = [finish EXCEPT !.state = "returned", !.returned_at = now,
                    !.abandoned = {i \in DOMAIN finish.deadline : ~Done(actors[i])},
                    !.written_then = [i \in DOMAIN actors |-> Len(actors[i].written)]]
    /\ actors' = [i \in DOMAIN actors |->
                    IF i \in DOMAIN finish.deadline /\ ~Done(actors[i])
                    THEN [actors[i] EXCEPT !.state = "cancelled"] ELSE actors[i]]
    /\ outcome' = "ok"
    /\ UNCHANGED <<sourceVars, tailerVars, queue, consumer, consumed, now, historyVars,
                   out, sinks, inhand>>

\* Every timeout(wait, handle) is over, by the task's end or by the deadline:
\* an elapsed timeout drops the JoinHandle, which detaches the task. finish
\* returns and run_logs returns Ok(()) (line 139).
FinishReturn ==
    /\ finish.state = "waiting" /\ Waited = {}
    /\ finish' = [finish EXCEPT !.state = "returned", !.returned_at = now,
                    !.abandoned = {i \in DOMAIN finish.deadline : ~Done(actors[i])},
                    !.written_then = [i \in DOMAIN actors |-> Len(actors[i].written)]]
    /\ outcome' = "ok"
    /\ UNCHANGED <<sourceVars, tailerVars, queue, consumer, consumed, now, historyVars,
                   out, sinks, actors, inhand>>

\* main returns or panics after run_logs: the runtime shuts down and the tasks
\* that are still running are dropped.
Shutdown ==
    /\ outcome # "running"
    /\ \E i \in DOMAIN actors : actors[i].state \in {"starting", "running"}
    /\ actors' = [i \in DOMAIN actors |->
                    IF actors[i].state \in {"starting", "running"}
                    THEN [actors[i] EXCEPT !.state = "cancelled", !.inbox = <<>>]
                    ELSE actors[i]]
    /\ UNCHANGED <<sourceVars, tailerVars, queue, consumer, consumed, now, historyVars,
                   out, sinks, inhand, finish, outcome>>

\* ------------------------------------- src/main.rs, the single-file binary

\* main.rs unpack_tags: as unpack_tags of logs.rs, but the value of a tag is
\* split.next().unwrap(): a string tag without ':' panics.
Main_unpack_tags(e) ==
    LET attrs == e.attributes
        isList == /\ attrs.type = "object" /\ "tags" \in DOMAIN attrs.fields
                  /\ attrs.fields.tags.type = "array"
        tags == attrs.fields.tags.items
    IN IF isList /\ \E i \in DOMAIN tags :
                       as_str(tags[i]) # None /\ Len(Split(tags[i].str)) < 2
       THEN [ok |-> FALSE, event |-> e]
       ELSE [ok |-> TRUE, event |-> unpack_tags(e)]

\* main.rs get_events_from_response_body
get_events_from_response_body(body) ==
    IF body.data = "missing" THEN [ok |-> TRUE, events |-> <<>>]
    ELSE IF body.data # "array" THEN [ok |-> FALSE, events |-> <<>>]
    ELSE [ok |-> TRUE, events |-> body.events]

\* main.rs Tailer::get_next after get_events returned: the events whose id is
\* new are kept; when none was filtered the seen ids are cleared and only the
\* ids of this call are retained.
get_next(events, seen) ==
    LET r == Retain(events, seen)
    IN [unseen |-> r.kept,
        seen |-> IF Len(r.kept) = Len(events)
                 THEN {r.kept[i].id : i \in DOMAIN r.kept}
                 ELSE r.seen]

\* WriterPool::consume, lines 204-219: the writer id of an event. A value under
\* split_key that is not a string is an Err; in stdout mode the id is "stdout".
WriterPool_writer_id(o, e) ==
    LET v == IF o.split_key = None THEN Some(JsonString("output"))
             ELSE JsonKey_get(o.split_key[1], EventValue(e))
        found == IF v = None THEN JsonString("output") ELSE v[1]
    IN IF as_str(found) = None THEN [ok |-> FALSE, id |-> ""]
       ELSE [ok |-> TRUE, id |-> IF o.mode = "Stdout" THEN "stdout" ELSE as_str(found)[1]]

\* Mode::get_writer: a channel and a spawned writer task.
get_writer(o, id) ==
    [id |-> id, kind |-> o.mode, inbox |-> <<>>, open |-> TRUE,
     state |-> "starting", received |-> <<>>, written |-> <<>>, lines |-> <<>>]

\* main panics on the unwrap of an Err (or a callee panicked): the process ends.
MainPanic(why) ==
    /\ outcome' = why
    /\ consumer' = "failed"
    /\ tail_state' = "failed"
    /\ pc' = "done"

\* get_events: the body of a successful response. Its events are added to those
\* returned so far; a continuation link keeps the loop going, without one
\* get_next filters the events and main iterates over them. extract_log is
\* history here: one entry per get_next call that returned, with what
\* get_events gave it, what it returned and the seen ids it started from.
MainBody(sofar, body) ==
    LET evs == get_events_from_response_body(body)
        nx == extract_next(body)
        all == sofar \o evs.events
        g == get_next(all, seen_event_ids)
    IN IF ~evs.ok \/ ~nx.ok
       THEN /\ MainPanic("get_next")
            /\ UNCHANGED <<seen_event_ids, next, returned, pending, queue, log, extract_log>>
       ELSE IF nx.next # None
       THEN /\ pending' = all
            /\ next' = nx.next
            /\ pc' = "follow"
            /\ UNCHANGED <<seen_event_ids, returned, queue, log, extract_log, outcome,
                           consumer, tail_state>>
       ELSE /\ pending' = <<>>
            /\ next' = None
            /\ seen_event_ids' = g.seen
            /\ returned' = returned + Len(g.unseen)
            /\ queue' = g.unseen
            /\ extract_log' = Append(extract_log,
                   [got |-> all, kept |-> g.unseen, seen |-> seen_event_ids, at |-> now',
                    rejected |-> FALSE])
            /\ log' = Append(log, LogLine("info", "Found events to write", Len(g.unseen)))
            /\ pc' = "run_query"
            /\ UNCHANGED <<outcome, consumer, tail_state>>

\* get_next with no events: get_events returned Ok(vec![]) for a 429.
MainEmpty ==
    LET g == get_next(<<>>, seen_event_ids)
    IN /\ seen_event_ids' = g.seen
       /\ queue' = g.unseen
       /\ extract_log' = Append(extract_log,
              [got |-> <<>>, kept |-> g.unseen, seen |-> seen_event_ids, at |-> now',
               rejected |-> TRUE])
       /\ log' = log \o <<LogLine("warn", "Got too_many_requests", 0),
                          LogLine("info", "Found events to write", 0)>>
       /\ pc' = "run_query"
       /\ UNCHANGED <<next, returned, pending, outcome, consumer, tail_state>>

\* main's loop calls get_next once the events of the last call are consumed;
\* get_events, lines 349-373: the POST for "now - 60s", the pause of the
\* response's own rate-limit headers, then the status and the body.
MainSendFirst(r, jitter) ==
    /\ outcome = "running" /\ consumer = "recv" /\ pc = "run_query" /\ queue = <<>>
    /\ window' = <<now - 60000, now>>
    /\ http_log' = Append(http_log, [kind |-> "POST", target |-> window', sentAt |-> now,
                                     resp |-> r])
    /\ IF r.transport = "failed"
       THEN /\ MainPanic("get_next")
            /\ UNCHANGED <<now, seen_event_ids, next, returned, pending, queue, log, extract_log>>
       ELSE /\ now' = now + r.hdr.reset * 1000 + jitter
            /\ IF ~is_success(r.status)
               THEN IF r.status = 429
                    THEN MainEmpty
                    ELSE /\ MainPanic("get_next")
                         /\ UNCHANGED <<seen_event_ids, next, returned, pending, queue, log, extract_log>>
               ELSE MainBody(<<>>, r.body)
    /\ UNCHANGED <<mode, gen, config, last_limit_stats, consumed, declared_reset, pushed,
                   gen_log, scale_log, out, sinks, actors, inhand, finish>>

\* get_events, lines 375-391: one hop of the continuation loop; a 429 lets the
\* loop request the same page again.
MainSendNext(r, jitter) ==
    /\ outcome = "running" /\ consumer = "recv" /\ pc = "follow" /\ next # None
    /\ http_log' = Append(http_log, [kind |-> "GET", target |-> next[1], sentAt |-> now,
                                     resp |-> r])
    /\ IF r.transport = "failed"
       THEN /\ MainPanic("get_next")
            /\ UNCHANGED <<now, seen_event_ids, next, returned, pending, queue, log, extract_log>>
       ELSE /\ now' = now + r.hdr.reset * 1000 + jitter
            /\ IF ~is_success(r.status)
               THEN IF r.status = 429
                    THEN /\ log' = Append(log, LogLine("warn", "Got too_many_requests", 0))
                         /\ UNCHANGED <<seen_event_ids, next, returned, pending, queue, pc,
                                        extract_log, outcome, consumer, tail_state>>
                    ELSE /\ MainPanic("get_next")
                         /\ UNCHANGED <<seen_event_ids, next, returned, pending, queue, log, extract_log>>
               ELSE MainBody(pending, r.body)
    /\ UNCHANGED <<mode, gen, config, last_limit_stats, window, consumed, declared_reset,
                   pushed, gen_log, scale_log, out, sinks, actors, inhand, finish>>

\* WriterPool::consume, lines 203-224: the tags are unpacked, the writer id is
\* computed (an Err when the value found is not a string, which main unwraps),
\* and the writer of that id is looked up, spawned if the id is new.
MainConsumeStart ==
    /\ outcome = "running" /\ consumer = "recv" /\ pc = "run_query" /\ queue # <<>>
    /\ queue' = Tail(queue)
    /\ LET u == Main_unpack_tags(Head(queue))
           w == WriterPool_writer_id(out, u.event)
           r == or_insert_with(sinks, actors, w.id, get_writer(out, w.id))
       IN IF ~u.ok
          THEN MainPanic("unpack_tags") /\ UNCHANGED <<inhand, sinks, actors>>
          ELSE IF ~w.ok
          THEN MainPanic("Writer id not a string") /\ UNCHANGED <<inhand, sinks, actors>>
          ELSE /\ inhand' = Some(u.event)
               /\ sinks' = r.sinks
               /\ actors' = r.actors
               /\ consumer' = "consume"
               /\ UNCHANGED <<outcome, tail_state, pc>>
    /\ UNCHANGED <<sourceVars, last_limit_stats, window, next, returned, pending, consumed,
                   now, historyVars, out, finish>>

\* WriterPool::consume, line 226, writer.send(..).await?: waits while the
\* writer's channel is full; fails, and main panics, once the writer is gone.
MainConsumeSend ==
    /\ outcome = "running" /\ consumer = "consume"
    /\ LET i == sinks[WriterPool_writer_id(out, inhand[1]).id]
       IN IF actors[i].state = "panicked"
          THEN /\ MainPanic("send")
               /\ UNCHANGED <<actors, consumed, inhand>>
          ELSE /\ Len(actors[i].inbox) < SinkCapacity
               /\ actors' = [actors EXCEPT ![i].inbox = Append(@, inhand[1]),
                                           ![i].received = Append(@, inhand[1])]
               /\ consumed' = Append(consumed, inhand[1])
               /\ inhand' = None
               /\ consumer' = "recv"
               /\ UNCHANGED <<outcome, tail_state, pc>>
    /\ UNCHANGED <<sourceVars, last_limit_stats, window, next, returned, pending, queue,
                   now, historyVars, out, sinks, finish>>

\* ---------------------------------------------------------- specification
\* The run's arguments: --from (ms on the clock) and --history (s).
HistorySecs == 30
SnapshotFrom == 5000

TailerInit ==
    /\ seen_event_ids = {}
    /\ last_limit_stats = None
    /\ pc = "run_query"
    /\ window = <<0, 0>>
    /\ next = None
    /\ returned = 0
    /\ pending = <<>>
    /\ tail_state = "running"
    /\ queue = <<>>
    /\ consumer = "recv"
    /\ consumed = <<>>
    /\ declared_reset = None
    /\ http_log = <<>>
    /\ pushed = <<>>
    /\ extract_log = <<>>
    /\ gen_log = <<>>
    /\ scale_log = <<>>
    /\ log = <<>>

\* run_logs, lines 118-126: Snapshot::new(from, history) when --from is given,
\* Follow::new(history) otherwise.
SourceInit(froms, histories) ==
    /\ mode \in {"Snapshot", "Follow"}
    /\ config \in [from : froms, history : histories]
    /\ gen = IF mode = "Snapshot" THEN Snapshot_new(config.from, config.history)
             ELSE Follow_new(config.history, now)

\* run_logs, lines 110-116: the OutputMode of the arguments and an empty pool.
PoolInit(outs) ==
    /\ out \in outs
    /\ sinks = <<>>
    /\ actors = <<>>
    /\ inhand = None
    /\ finish = [state |-> "idle", called_at |-> 0, deadline |-> <<>>,
                 returned_at |-> 0, abandoned |-> {}, written_then |-> <<>>]
    /\ outcome = "running"

\* The defaults of the command line: --output-mode file, no --split-key,
\* --default-output output.log, no --format-file. (--structured is not among
\* the runs of the model.)
DefaultOutput ==
    [mode |-> "File", split_key |-> None, default |-> "output.log",
     format |-> LogFormat_default]

Init ==
    /\ now = StartClock
    /\ SourceInit({SnapshotFrom}, {HistorySecs})
    /\ TailerInit
    /\ PoolInit({DefaultOutput})

Next ==
    \/ ConstructQuery
    \/ /\ Len(http_log) < MaxRequests
       /\ \E r \in DataResponses : SendFirst(r, 0, 0)
    \/ PushFirst
    \/ ScaleFirst(0)
    \/ /\ Len(http_log) < MaxRequests
       /\ \E r \in DataResponses : SendNext(r, 0, 0)
    \/ PushNext
    \/ EndQuery
    \/ \E a \in BOOLEAN : ConsumerRecv(a)
    \/ ConsumerEnd

Spec == Init /\ [][Next]_vars

\* The same program under varied rate-limit headers, jitter and latency.
NextRate ==
    \/ ConstructQuery
    \/ /\ Len(http_log) < MaxRateRequests
       /\ \E r \in RateResponses, j \in JitterSet : SendFirst(r, j, 0)
    \/ PushFirst
    \/ \E d \in LatencySet : ScaleFirst(d)
    \/ /\ Len(http_log) < MaxRateRequests
       /\ \E r \in RateResponses, j \in JitterSet, l \in LatencySet : SendNext(r, j, l)
    \/ PushNext
    \/ EndQuery
    \/ \E a \in BOOLEAN : ConsumerRecv(a)
    \/ ConsumerEnd

SpecRate == Init /\ [][NextRate]_vars

\* ------------------------------------------------- a Follow run with long waits

\* Requests of one run of the Follow specification.
MaxFollowRequests == 4

\* A header that declares the reset 12 s ahead with no budget left.
SlowHeader == [period |-> 1, remaining |-> 0, reset |-> 12]

\* Inputs of the Follow specification: a page under the slow header, a page
\* with a continuation link, a 429 and a failed request.
FollowResponses ==
    {HttpResponse(200, SlowHeader, Page(<<Ev(1)>>, "absent", "")),
     HttpResponse(200, PlainHeader, Page(<<Ev(2)>>, "string", "u1")),
     HttpResponse(429, PlainHeader, NoBody),
     TransportFailure}

InitFollow == Init /\ mode = "Follow"

NextFollow ==
    \/ ConstructQuery
    \/ /\ Len(http_log) < MaxFollowRequests
       /\ \E r \in FollowResponses : SendFirst(r, 0, 0)
    \/ PushFirst
    \/ ScaleFirst(0)
    \/ /\ Len(http_log) < MaxFollowRequests
       /\ \E r \in FollowResponses : SendNext(r, 0, 0)
    \/ PushNext
    \/ EndQuery
    \/ \E a \in BOOLEAN : ConsumerRecv(a)
    \/ ConsumerEnd

SpecFollow == InitFollow /\ [][NextFollow]_vars

\* ----------------------------------------- the window generator on its own

\* --from values (ms), --history values (s) and the times that pass between
\* two calls (ms) of the generator-only specification.
GenFromSet == {0, 5000, 70000}
GenHistorySet == {0, 1, 30}
GenGapSet == {0, 4000, 15000}

\* LogSource::construct_query called `gap` ms after the previous call: the
\* mode's next() decides between a request for (from, to) and None.
GenCall(gap) ==
    /\ Len(gen_log) < MaxGenCalls
    /\ now' = now + gap
    /\ LET r == Mode_next(mode, gen, now')
       IN /\ gen' = r.gen
          /\ gen_log' = Append(gen_log, r.item)
    /\ UNCHANGED <<mode, config, seen_event_ids, tailerVars, queue, consumerVars,
                   declared_reset, http_log, pushed, extract_log, scale_log, log>>

InitGen ==
    /\ now = StartClock
    /\ SourceInit(GenFromSet, GenHistorySet)
    /\ TailerInit
    /\ PoolInit({DefaultOutput})

NextGen == \E gap \in GenGapSet : GenCall(gap)

SpecGen == InitGen /\ [][NextGen]_vars

\* --------------------------------------------- the rate-limit tracker alone

\* Headers (s), times passing before a call (ms), counts and page sizes of the
\* scaling-only specification.
ScaleHeaderSet == [period : {1, 2}, remaining : {0, 1, 7}, reset : {0, 1, 2}]
ScaleGapSet == {0, 300, 1700}
ScaleCountSet == {0, 1, 3, 4, BatchSize, BatchSize + 1}
ScaleLimitSet == {3, BatchSize}

\* Tailer::send, line 79: a response arrives and replaces the tracker state.
TrackerFrom(hdr) ==
    /\ Len(scale_log) < MaxScaleCalls
    /\ last_limit_stats' = Some(RateLimitStatus_from(hdr, now))
    /\ declared_reset' = Some(now + hdr.reset * 1000)
    /\ UNCHANGED <<sourceVars, pc, window, next, returned, pending, tail_state, queue,
                   consumerVars, now, http_log, pushed, extract_log, gen_log, scale_log,
                   log>>

\* scale_remaining_by(cnt, limit) on the state in force, `gap` ms later.
TrackerScale(cnt, limit, gap) ==
    /\ Len(scale_log) < MaxScaleCalls
    /\ last_limit_stats # None
    /\ now' = now + gap
    /\ last_limit_stats' = Some(scale_remaining_by(last_limit_stats[1], cnt, limit, now'))
    /\ scale_log' = Append(scale_log,
           [before |-> last_limit_stats, cnt |-> cnt, limit |-> limit,
            at |-> now', after |-> last_limit_stats', reset_at |-> declared_reset,
            requests |-> 0])
    /\ UNCHANGED <<sourceVars, pc, window, next, returned, pending, tail_state, queue,
                   consumerVars, declared_reset, http_log, pushed, extract_log, gen_log,
                   log>>

NextScale ==
    \/ \E h \in ScaleHeaderSet : TrackerFrom(h)
    \/ \E c \in ScaleCountSet, l \in ScaleLimitSet, g \in ScaleGapSet : TrackerScale(c, l, g)

InitScale ==
    /\ now = StartClock
    /\ mode = "Follow"
    /\ config = [from |-> SnapshotFrom, history |-> HistorySecs]
    /\ gen = Follow_new(config.history, now)
    /\ TailerInit
    /\ PoolInit({DefaultOutput})

SpecScale == InitScale /\ [][NextScale]_vars

\* ------------------------------------- the pipeline with its ConsumerPool

\* Requests of one run in the pool specification.
MaxPoolRequests == 2

\* --output-mode and --split-key (attributes.tags.pod) of the pool specification.
OutputSet ==
    {[mode |-> m, split_key |-> k, default |-> "output.log", format |-> LogFormat_default] :
        m \in {"File", "Stdout"}, k \in {None, Some(<<"attributes", "tags", "pod">>)}}

\* Inputs of the pool specification: a page of three events of two "pod"
\* values, a page with a continuation link whose events have no string under
\* "pod", a 429, and the three fatal answers (status 500, a body whose data is
\* not an array, a failed request).
PoolResponses ==
    {HttpResponse(200, PlainHeader, Page(<<Ev(1), Ev(2), Ev(3)>>, "absent", "")),
     HttpResponse(200, PlainHeader, Page(<<Ev(4), Ev(5)>>, "string", "u1")),
     HttpResponse(429, PlainHeader, NoBody),
     HttpResponse(500, PlainHeader, NoBody),
     HttpResponse(200, PlainHeader,
                  [data |-> "other", events |-> <<>>, link |-> "absent", url |-> ""]),
     TransportFailure}

InitPool ==
    /\ now = StartClock
    /\ SourceInit({SnapshotFrom}, {HistorySecs})
    /\ TailerInit
    /\ PoolInit(OutputSet)

NextPool ==
    \/ ConstructQuery
    \/ /\ Len(http_log) < MaxPoolRequests
       /\ \E r \in PoolResponses : SendFirst(r, 0, 0)
    \/ PushFirst
    \/ ScaleFirst(0)
    \/ /\ Len(http_log) < MaxPoolRequests
       /\ \E r \in PoolResponses : SendNext(r, 0, 0)
    \/ PushNext
    \/ EndQuery
    \/ ConsumeStart
    \/ ConsumeSend
    \/ ConsumerEnd
    \/ \E i \in DOMAIN actors, ok \in BOOLEAN : ActorStart(i, ok)
    \/ \E i \in DOMAIN actors, ok \in BOOLEAN : ActorWrite(i, ok)
    \/ \E i \in DOMAIN actors : ActorExit(i)
    \/ FinishStart
    \/ Tick
    \/ FinishReturn
    \/ Shutdown

SpecPool == InitPool /\ [][NextPool]_vars

\* --------------------------------------------- the pipeline under --format-file

\* The formats of get_format_config: the default and four format files (keys
\* reaching a number, an array, an object and nothing; one key; no line at all;
\* a key that goes into an array).
FormatSet ==
    {LogFormat_default,
     LogFormat_text(" | ", <<<<"attributes", "status">>, <<"attributes", "hosts">>,
                             <<"attributes", "nothing">>, <<"attributes", "tags">>>>),
     LogFormat_text(" | ", <<<<"id">>>>),
     LogFormat_text(" | ", <<>>),
     LogFormat_text(" | ", <<<<"attributes", "hosts", "0">>, <<"attributes", "tags", "pod">>>>)}

InitFormat ==
    /\ now = StartClock
    /\ SourceInit({SnapshotFrom}, {HistorySecs})
    /\ TailerInit
    /\ PoolInit({[DefaultOutput EXCEPT !.format = f] : f \in FormatSet})

SpecFormat == InitFormat /\ [][NextPool]_vars

\* ------------------------------------------------ the single-file binary

\* Requests of one run of src/main.rs.
MaxMainRequests == 3

\* --mode and --split-key of src/main.rs; its default writer id is "output".
MainOutputSet ==
    {[mode |-> m, split_key |-> k, default |-> "output", format |-> LogFormat_default] :
        m \in {"File", "Stdout"},
        k \in {None, Some(<<"attributes", "tags", "pod">>), Some(<<"attributes", "status">>)}}

\* Inputs of src/main.rs: pages whose events have a string, a number or
\* nothing under the split keys, a tag without ':', a continuation link, and
\* the answers 429 and 500.
MainResponses ==
    {HttpResponse(200, PlainHeader, Page(<<Ev(2), Ev(3)>>, "absent", "")),
     HttpResponse(200, PlainHeader, Page(<<Ev(3), Ev(5)>>, "string", "u1")),
     HttpResponse(200, PlainHeader, Page(<<Ev(4)>>, "absent", "")),
     HttpResponse(200, PlainHeader, Page(<<Ev(1)>>, "absent", "")),
     HttpResponse(200, PlainHeader, NoBody),
     HttpResponse(429, PlainHeader, NoBody),
     HttpResponse(500, PlainHeader, NoBody)}

InitMain ==
    /\ now = StartClock
    /\ mode = "Follow"
    /\ config = [from |-> 0, history |-> 60]
    /\ gen = Follow_new(config.history, now)
    /\ TailerInit
    /\ PoolInit(MainOutputSet)

NextMain ==
    \/ /\ Len(http_log) < MaxMainRequests
       /\ \E r \in MainResponses : MainSendFirst(r, 0)
    \/ /\ Len(http_log) < MaxMainRequests
       /\ \E r \in MainResponses : MainSendNext(r, 0)
    \/ MainConsumeStart
    \/ MainConsumeSend
    \/ /\ outcome = "running"
       /\ \E i \in DOMAIN actors, ok \in BOOLEAN : ActorStart(i, ok)
    \/ /\ outcome = "running"
       /\ \E i \in DOMAIN actors, ok \in BOOLEAN : ActorWrite(i, ok)

SpecMain == InitMain /\ [][NextMain]_vars

\* ======================================================== checked properties

Ids(events) == {events[i].id : i \in DOMAIN events}

IdSeq(events) == [i \in DOMAIN events |-> events[i].id]

NoRepeat(seq) == \A i, j \in DOMAIN seq : seq[i] = seq[j] => i = j

Last(seq) == seq[Len(seq)]

\* The events of `events`, in order, whose id is not in `excluded` and does not
\* occur earlier in `events`.
RECURSIVE NovelFrom(_, _, _)
NovelFrom(events, i, excluded) ==
    IF i > Len(events) THEN <<>>
    ELSE (IF /\ events[i].id \notin excluded
             /\ \A j \in 1..(i - 1) : events[j].id # events[i].id
          THEN <<events[i]>> ELSE <<>>) \o NovelFrom(events, i + 1, excluded)

Novel(events, excluded) == NovelFrom(events, 1, excluded)

\* The events of `events` with their tags unpacked.
Unpacked(events) == [i \in DOMAIN events |-> unpack_tags(events[i])]

\* The concatenation of a sequence of sequences.
RECURSIVE Flatten(_)
Flatten(seqs) ==
    IF seqs = <<>> THEN <<>> ELSE Head(seqs) \o Flatten(Tail(seqs))

EventsOf(e) == e.body.events

\* What calls 1..n of extract_results returned, and what they were given.
KeptUpTo(n) == Flatten([i \in 1..n |-> extract_log[i].kept])
FedUpTo(n) == Flatten([i \in 1..n |-> EventsOf(extract_log[i])])

\* C1: over all extract_results calls of one LogSource, every id is returned at
\* most once (across the returned lists and within each); a call returns, in
\* order, exactly the events of its page whose id no earlier page and no
\* earlier position of the same page carried, and records them, so a page fed
\* a second time returns nothing.
C1_DedupOnce ==
    /\ NoRepeat(IdSeq(KeptUpTo(Len(extract_log))))
    /\ \A k \in DOMAIN extract_log :
           /\ extract_log[k].kept =
                  Unpacked(Novel(EventsOf(extract_log[k]), Ids(FedUpTo(k - 1))))
           /\ \A j \in 1..(k - 1) :
                  EventsOf(extract_log[j]) = EventsOf(extract_log[k])
                      => extract_log[k].kept = <<>>
    /\ seen_event_ids = Ids(FedUpTo(Len(extract_log)))

\* The same page is fed twice: all of it comes back the first time, nothing
\* the second time.
C1_Witness ==
    \E j, k \in DOMAIN extract_log :
        /\ j < k
        /\ EventsOf(extract_log[j]) = <<Ev(1), Ev(2)>>
        /\ EventsOf(extract_log[k]) = <<Ev(1), Ev(2)>>
        /\ extract_log[j].kept = Unpacked(<<Ev(1), Ev(2)>>)
        /\ extract_log[k].kept = <<>>

\* The records of the success responses received so far, in order.
ServedOf(x) ==
    IF x.resp.transport = "ok" /\ is_success(x.resp.status) THEN x.resp.body.events ELSE <<>>

Served == Flatten([i \in DOMAIN http_log |-> ServedOf(http_log[i])])

\* C2: as long as the Tailer has not failed, what it has pushed plus what it
\* still holds to push is the concatenation of the pages of the success
\* responses, in page order and within-page order, without the records whose
\* id came earlier.
C2_OutputIsDedupedConcatenation ==
    tail_state # "failed" => pushed \o pending = Unpacked(Novel(Served, {}))

\* Pages {1,2}, {2,3}, {4} linked by links.next, the last without a link: the
\* output is 1,2,3,4.
C2_Witness ==
    /\ Len(http_log) = 3
    /\ http_log[1].resp.body = Page(<<Ev(1), Ev(2)>>, "string", "u1")
    /\ http_log[2].resp.body = Page(<<Ev(2), Ev(3)>>, "string", "u2")
    /\ http_log[3].resp.body = Page(<<Ev(4)>>, "absent", "")
    /\ \A i \in 1..3 : http_log[i].resp.status = 200
    /\ pc = "run_query"
    /\ pushed = Unpacked(<<Ev(1), Ev(2), Ev(3), Ev(4)>>)

Rejected(x) == x.resp.transport = "ok" /\ x.resp.status = 429

Fatal(x) == x.resp.transport = "ok" /\ ~is_success(x.resp.status) /\ x.resp.status # 429

IsPrefix(a, b) == Len(a) <= Len(b) /\ SubSeq(b, 1, Len(a)) = a

\* C3: after a 429 on the initial (POST) request the Tailer sends the POST
\* again with the same (from, to): it does not stop for want of a window, and
\* the next request is a POST for the window of the rejected one.
C3_RetrySameWindow ==
    \A i \in DOMAIN http_log :
        (http_log[i].kind = "POST" /\ Rejected(http_log[i])) =>
            IF i = Len(http_log)
            THEN tail_state # "stopped"
            ELSE /\ http_log[i + 1].kind = "POST"
                 /\ http_log[i + 1].target = http_log[i].target

\* C4: after a 429 on a continuation (GET) request nothing is pushed and the
\* cursor stays; the next request is a GET to the same URL, sent no earlier
\* than the reset time the 429 declared; what was pushed before stays pushed
\* and no id is pushed twice.
C4_ContinuationRetry ==
    /\ \A i \in DOMAIN http_log :
           (http_log[i].kind = "GET" /\ Rejected(http_log[i])) =>
               IF i = Len(http_log)
               THEN /\ tail_state = "running" /\ pc = "follow"
                    /\ next = Some(http_log[i].target)
                    /\ pending = <<>>
                    /\ pushed = http_log[i].pushedBefore
               ELSE /\ http_log[i + 1].kind = "GET"
                    /\ http_log[i + 1].target = http_log[i].target
                    /\ http_log[i + 1].pushedBefore = http_log[i].pushedBefore
                    /\ http_log[i + 1].sentAt >=
                           http_log[i].sentAt + http_log[i].resp.hdr.reset * 1000
                    /\ IsPrefix(http_log[i].pushedBefore, pushed)
    /\ NoRepeat(IdSeq(pushed))

\* A continuation hop is rejected after records were pushed, is retried at the
\* same URL, and the retry brings new records.
C4_Witness ==
    \E i \in DOMAIN http_log :
        /\ i < Len(http_log)
        /\ http_log[i].kind = "GET" /\ Rejected(http_log[i])
        /\ http_log[i].pushedBefore # <<>>
        /\ http_log[i + 1].target = "u2"
        /\ is_success(http_log[i + 1].resp.status)
        /\ Len(pushed) > Len(http_log[i].pushedBefore)

\* C5: a status that is neither success nor 429 is the last request of the
\* run: the Tailer task has ended with an error, its Sender is dropped, and
\* no record is pushed after it; a consumer that then sees the end of the
\* queue has received every record pushed.
C5_FatalStatusStops ==
    /\ \A i \in DOMAIN http_log :
           Fatal(http_log[i]) =>
               /\ i = Len(http_log)
               /\ tail_state = "failed" /\ pc = "done"
               /\ pushed = http_log[i].pushedBefore
    /\ (tail_state = "failed" /\ consumer = "finished") =>
           (consumed = pushed /\ queue = <<>>)

\* A continuation hop fails with status 500 after two records were pushed, and
\* the consumer has received both and seen the end of the queue.
C5_Witness ==
    /\ http_log # <<>>
    /\ Fatal(Last(http_log)) /\ Last(http_log).kind = "GET"
    /\ consumer = "finished"
    /\ Len(consumed) >= 2

\* The tracker state in force for request i > 1: the state made from response
\* i-1, after the scaling applied to it, if any.
ScalesOf(n) == {k \in DOMAIN scale_log : scale_log[k].requests = n}

GateFor(i) ==
    IF ScalesOf(i - 1) = {}
    THEN Some(RateLimitStatus_from(http_log[i - 1].resp.hdr, http_log[i - 1].sentAt))
    ELSE scale_log[CHOOSE k \in ScalesOf(i - 1) : \A m \in ScalesOf(i - 1) : m <= k].after

\* C6: the first request is sent with no tracker state; every later request,
\* POST or GET, is sent no earlier than next_request_allowed of the state in
\* force (made from the previous response, scaled or not) plus the jitter
\* drawn, which lies in [0, 5 s).
C6_WaitsForAllowedPlusJitter ==
    \A i \in DOMAIN http_log :
        IF i = 1
        THEN http_log[i].gate = None
        ELSE /\ http_log[i].gate = GateFor(i)
             /\ http_log[i].gate # None
             /\ http_log[i].jitter >= 0 /\ http_log[i].jitter < JitterLimitMs
             /\ http_log[i].sentAt >=
                    http_log[i].gate[1].next_request_allowed + http_log[i].jitter

\* A continuation hop that had to wait: the allowed time lay ahead of the
\* clock, and a jitter was added.
C6_Witness ==
    \E i \in DOMAIN http_log :
        /\ i > 1
        /\ http_log[i].kind = "GET"
        /\ http_log[i].jitter > 0
        /\ http_log[i].gate[1].next_request_allowed > http_log[i - 1].recvAt
        /\ http_log[i].sentAt =
               http_log[i].gate[1].next_request_allowed + http_log[i].jitter

\* C7: a call of scale_remaining_by on a state with remaining_budget = 0
\* leaves the state as it was, whatever the count and the page size, so
\* next_request_allowed stays the reset time the last response declared.
C7_NoBudgetNoScaling ==
    \A k \in DOMAIN scale_log :
        scale_log[k].before[1].remaining_budget = 0 =>
            /\ scale_log[k].after = scale_log[k].before
            /\ scale_log[k].after[1].next_request_allowed = scale_log[k].reset_at[1]

\* A full page with no budget left and the reset still ahead: scaling would
\* have pulled the allowed time back to now.
C7_Witness ==
    \E k \in DOMAIN scale_log :
        /\ scale_log[k].before[1].remaining_budget = 0
        /\ scale_log[k].cnt >= scale_log[k].limit
        /\ scale_log[k].after[1].next_request_allowed > scale_log[k].at

\* period_ms * (1 - returned/limit), in whole ms.
DesiredWait(e) == (e.before[1].period * (e.limit - e.cnt)) \div e.limit

ScaledTo(e) ==
    e.at + Max(0, Min(DesiredWait(e), e.before[1].next_request_allowed - e.at))

\* C8 as stated: with budget left, the scaled next_request_allowed is
\* now + min(desired wait, time left until the reset) clamped at zero, never
\* earlier than now, never later than the header-derived reset time, and now
\* itself after a full page.
C8_AsStated ==
    \A k \in DOMAIN scale_log :
        scale_log[k].before[1].remaining_budget > 0 =>
            /\ scale_log[k].after[1].next_request_allowed = ScaledTo(scale_log[k])
            /\ scale_log[k].after[1].next_request_allowed >= scale_log[k].at
            /\ scale_log[k].after[1].next_request_allowed <= scale_log[k].reset_at[1]
            /\ scale_log[k].cnt >= scale_log[k].limit =>
                   scale_log[k].after[1].next_request_allowed = scale_log[k].at

\* C8, amended: as stated, except that the scaled time is never later than the
\* later of now and the header-derived reset time: once the reset time has
\* passed, the scaled time is now.
C8_ScaledWithinWindow ==
    \A k \in DOMAIN scale_log :
        scale_log[k].before[1].remaining_budget > 0 =>
            /\ scale_log[k].after[1].next_request_allowed = ScaledTo(scale_log[k])
            /\ scale_log[k].after[1].next_request_allowed >= scale_log[k].at
            /\ scale_log[k].after[1].next_request_allowed
                   <= Max(scale_log[k].at, scale_log[k].reset_at[1])
            /\ scale_log[k].reset_at[1] <= scale_log[k].at =>
                   scale_log[k].after[1].next_request_allowed = scale_log[k].at
            /\ scale_log[k].cnt >= scale_log[k].limit =>
                   scale_log[k].after[1].next_request_allowed = scale_log[k].at

\* A partly filled page with budget left: the scaled time lies strictly
\* between now and the declared reset.
C8_Witness ==
    \E k \in DOMAIN scale_log :
        /\ scale_log[k].before[1].remaining_budget > 0
        /\ scale_log[k].cnt > 0 /\ scale_log[k].cnt < scale_log[k].limit
        /\ scale_log[k].after[1].next_request_allowed > scale_log[k].at
        /\ scale_log[k].after[1].next_request_allowed < scale_log[k].reset_at[1]

\* C9: a Snapshot generator made from (from, history) returns the window
\* (from, from + history) on its first call and None on every later call.
C9_SnapshotYieldsOnce ==
    mode = "Snapshot" =>
        \A i \in DOMAIN gen_log :
            gen_log[i] = IF i = 1
                         THEN Some(<<config.from, config.from + config.history * 1000>>)
                         ELSE None

\* Three calls on a Snapshot generator with a window of positive length.
C9_Witness ==
    /\ mode = "Snapshot"
    /\ config.history > 0
    /\ Len(gen_log) >= 3
    /\ gen_log[1] # None
    /\ gen_log[2] = None /\ gen_log[3] = None

\* C10: the Tailer stops without an error exactly when construct_query has
\* returned None; construct_query is not called again and no request is sent
\* after that (every request was sent under a window the source returned); a
\* consumer that then sees the end of the queue has received every record
\* pushed.
C10_StopsOnAbsent ==
    /\ (tail_state = "stopped") <=> (gen_log # <<>> /\ Last(gen_log) = None)
    /\ \A i \in DOMAIN gen_log : gen_log[i] = None => i = Len(gen_log)
    /\ \A i \in DOMAIN http_log :
           /\ http_log[i].draws >= 1
           /\ gen_log[http_log[i].draws] # None
    /\ tail_state = "stopped" => (pc = "done" /\ pending = <<>>)
    /\ (tail_state = "stopped" /\ consumer = "finished") =>
           (consumed = pushed /\ queue = <<>>)

\* A Snapshot run whose window returned records ends on the absent query, and
\* the consumer has received them all.
C10_Witness ==
    /\ mode = "Snapshot"
    /\ tail_state = "stopped"
    /\ consumer = "finished"
    /\ Len(pushed) >= 3
    /\ consumed = pushed

\* C11: a Follow generator started at time T with history H first returns the
\* window (T - H, T); every later call returns a window that starts 10 seconds
\* before the end of the previous one and ends at the time of the call; no call
\* returns None.
C11_FollowWindows ==
    [][(mode = "Follow" /\ Len(gen_log') = Len(gen_log) + 1) =>
          /\ Last(gen_log') # None
          /\ LET w == Last(gen_log')[1]
             IN IF gen_log = <<>>
                THEN w = <<StartClock - config.history * 1000, StartClock>>
                ELSE /\ Last(gen_log) # None
                     /\ w[1] = Last(gen_log)[1][2] - 10000
                     /\ w[2] = now']_vars

\* Three windows were drawn from a Follow generator with a non-zero history,
\* at three different times.
C11_Witness ==
    /\ mode = "Follow" /\ config.history > 0 /\ Len(gen_log) = 3
    /\ \A i \in 1..3 : gen_log[i] # None
    /\ gen_log[1][1][2] < gen_log[2][1][2] /\ gen_log[2][1][2] < gen_log[3][1][2]
    /\ gen_log[3][1][1] > gen_log[2][1][1]

\* ------------------------------------------------------------ the pool

\* The consumed events whose sink id is k, in the order of consumption.
ConsumedFor(k) == SelectSeq(consumed, LAMBDA e : get_sink_id(out, e) = k)

\* C12: the actor registered under a sink id has been sent exactly the consumed
\* events of that id, each once and to no other actor, in the order in which
\* the Tailer pushed them onto its channel.
C12_PerKeyDelivery ==
    /\ IsPrefix(consumed, pushed)
    /\ \A k \in DOMAIN sinks : actors[sinks[k]].id = k
    /\ \A i \in DOMAIN actors : actors[i].received = ConsumedFor(actors[i].id)
    /\ \A i, j \in DOMAIN actors :
          i # j => Ids(actors[i].received) \cap Ids(actors[j].received) = {}

\* Events of two ids were consumed interleaved: two events went to one actor,
\* the event pushed between them to another.
C12_Witness ==
    /\ Len(consumed) >= 3
    /\ \E i, j \in DOMAIN actors :
          /\ i # j
          /\ Len(actors[i].received) = 2
          /\ Len(actors[j].received) >= 1
          /\ consumed[1] = actors[i].received[1]
          /\ consumed[2] = actors[j].received[1]
          /\ consumed[3] = actors[i].received[2]

\* The sink ids of the events consume has been called with and has not failed on.
SeenIds == {get_sink_id(out, e) : e \in Range(consumed) \cup Range(inhand)}

\* C13: until finish, the registry holds exactly one actor per sink id seen: an
\* actor is constructed on the first event of its id and never again for that
\* id, and no entry is removed or replaced before finish.
C13_OneActorPerKey ==
    /\ [](/\ \A i, j \in DOMAIN actors : actors[i].id = actors[j].id => i = j
          /\ finish.state = "idle" =>
                /\ SeenIds \subseteq DOMAIN sinks
                /\ consumer # "failed" => DOMAIN sinks = SeenIds
                /\ Range(sinks) = DOMAIN actors
                /\ \A k \in DOMAIN sinks : actors[sinks[k]].id = k)
    /\ [][finish'.state = "idle" =>
             \A k \in DOMAIN sinks : k \in DOMAIN sinks' /\ sinks'[k] = sinks[k]]_vars

\* Five events of three sink ids were consumed and finish has not begun.
C13_Witness ==
    /\ finish.state = "idle"
    /\ Len(consumed) = 5
    /\ Cardinality(DOMAIN sinks) = 3
    /\ Len(actors) = 3

\* C14: the Tailer's channel and every actor's channel never hold more records
\* than their capacity; a record is put into a channel only when it has room,
\* the Tailer sends no request while it still has records to push, and nothing
\* is lost, repeated or reordered on the way through a full channel.
C14_BoundedQueuesBlock ==
    /\ [](/\ Len(queue) <= ChannelCapacity
          /\ \A i \in DOMAIN actors : Len(actors[i].inbox) <= SinkCapacity
          /\ consumer # "failed" => pushed = consumed \o inhand \o queue
          /\ \A i \in DOMAIN actors :
                actors[i].state \in {"starting", "running", "exited"} =>
                   actors[i].received = actors[i].written \o actors[i].inbox)
    /\ [][/\ Len(http_log') > Len(http_log) => pending = <<>>
          /\ Len(pushed') > Len(pushed) => Len(queue) < ChannelCapacity
          /\ Len(consumed') > Len(consumed) =>
                \E i \in DOMAIN actors :
                   /\ Len(actors[i].inbox) < SinkCapacity
                   /\ actors'[i].inbox = Append(actors[i].inbox, Last(consumed'))]_vars

\* Both producers wait at once: the Tailer has a record to push and its channel
\* is full, and consume holds an event whose actor's channel is full.
C14_Witness ==
    /\ tail_state = "running" /\ pending # <<>>
    /\ Len(queue) = ChannelCapacity
    /\ consumer = "consume"
    /\ Len(actors[sinks[get_sink_id(out, inhand[1])]].inbox) = SinkCapacity
    /\ actors[sinks[get_sink_id(out, inhand[1])]].state = "running"

\* C15: finish(maxWait) is over no later than maxWait after its call, however
\* many actors are registered and whether or not they have drained: the waits
\* for the actors run side by side.
C15_FinishBounded ==
    /\ finish.state = "waiting" => now <= finish.called_at + FinishWaitMs
    /\ finish.state = "returned" =>
          finish.returned_at <= finish.called_at + FinishWaitMs

\* finish returned at its bound although two actors had not ended.
C15_Witness ==
    /\ finish.state = "returned"
    /\ Cardinality(DOMAIN finish.deadline) >= 2
    /\ Cardinality(finish.abandoned) >= 2
    /\ finish.returned_at = finish.called_at + FinishWaitMs

\* The number of records the actors have written.
RECURSIVE WrittenCount(_)
WrittenCount(n) == IF n = 0 THEN 0 ELSE Len(actors[n].written) + WrittenCount(n - 1)

C17_AbandonedNotCancelled ==
    /\ [][(finish.state = "waiting" /\ finish'.state = "returned") =>
             actors' = actors]_vars
    /\ [](\A i \in finish.abandoned :
             (actors[i].state = "running" /\ actors[i].inbox # <<>>) =>
                ENABLED ActorWrite(i, TRUE))

\* An actor that finish abandoned wrote a record after finish had returned.
C17_Witness ==
    /\ finish.state = "returned"
    /\ \E i \in finish.abandoned :
          /\ finish.returned_at = finish.deadline[i]
          /\ Len(actors[i].written) > finish.written_then[i]

\* C18: a failed write ends the actor it happens in and nothing else: while
\* another actor is in the pool the consumer loop is not given up, and the run
\* ends only after finish has closed and joined the actors.
C18_WriteFailureIsLocal ==
    \A i, j \in DOMAIN actors :
       (i # j /\ actors[i].state = "panicked" /\ actors[j].state # "panicked") =>
          /\ consumer # "failed"
          /\ outcome # "running" => finish.state = "returned"

\* C19: when the Tailer has ended on a fatal error (a failed request, a body of
\* the wrong shape, a status that is neither success nor 429), the run that
\* ends afterwards has logged the error and ends as a failure, unlike a
\* Snapshot run that completed.
C19_FailureReported ==
    (tail_state = "failed" /\ consumer = "finished" /\ finish.state = "returned") =>
       /\ outcome = "err"
       /\ \E k \in DOMAIN log : log[k].level = "error"

\* C20: in a stdout run every event gets one and the same sink id, whatever
\* --split-key is and whatever the event carries, so at most one actor is made.
C20_SingleStreamOneActor ==
    out.mode = "Stdout" =>
       /\ \A i, j \in DOMAIN consumed :
             get_sink_id(out, consumed[i]) = get_sink_id(out, consumed[j])
       /\ Len(actors) <= 1

\* ------------------------------------------------------------ partitionKey

\* C21 (as stated): partitionKey is infallible: the value found under the
\* configured key path selects the writer when it is a string and the default
\* is used otherwise, so consume never fails because of the type of the value
\* it looked up.
C21_ConsumeInfallible == outcome # "Writer id not a string"

\* ---------------------------------------------------------- extract_results

\* A success response whose body went through extract_results with Ok.
WasExtracted(x) ==
    /\ x.resp.transport = "ok" /\ is_success(x.resp.status)
    /\ extract_next(x.resp.body).ok
    /\ x.resp.body.data # "other"

Extracted == SelectSeq(http_log, WasExtracted)

\* A success response whose data field is there and is not an array.
Malformed(x) ==
    /\ x.resp.transport = "ok" /\ is_success(x.resp.status)
    /\ x.resp.body.data = "other"

\* C22 (as stated): a body without a data array, missing or not an array, is a
\* schema error: extract_results never returns Ok for one.
C22_AsStated ==
    \A k \in DOMAIN extract_log : extract_log[k].body.data = "array"

\* C22 (amended): a data field that is present and not an array fails
\* extract_results, which ends the Tailer; a body without a data field is a
\* successful empty page, and these two are the only outcomes for such bodies.
C22_SchemaError ==
    /\ \A i \in DOMAIN http_log :
           Malformed(http_log[i]) => i = Len(http_log) /\ tail_state = "failed"
    /\ Len(extract_log) = Len(Extracted)
    /\ \A k \in DOMAIN extract_log :
           /\ extract_log[k].body = Extracted[k].resp.body
           /\ extract_log[k].body.data \in {"array", "missing"}
           /\ extract_log[k].body.data = "missing" => extract_log[k].kept = <<>>

\* A body without data was taken for an empty page and the run went on to
\* a body whose data is not an array, which ended it.
C22_Witness ==
    /\ Len(http_log) >= 2
    /\ Malformed(Last(http_log))
    /\ tail_state = "failed"
    /\ \E k \in DOMAIN extract_log :
           extract_log[k].body.data = "missing" /\ extract_log[k].kept = <<>>

\* -------------------------------------------------------------- format_text

\* What one key path contributes to a line: the string found, the debug
\* representation of any other value found, KEY_NOT_FOUND when nothing is.
Field(key, e) ==
    LET v == JsonKey_get(key, EventValue(e))
    IN IF v = None THEN "KEY_NOT_FOUND"
       ELSE IF v[1].type = "string" THEN v[1].str
       ELSE Debug(v[1])

\* The strings of a non-empty sequence with sep between consecutive ones.
RECURSIVE Join(_, _)
Join(strs, sep) ==
    IF Len(strs) = 1 THEN strs[1] ELSE strs[1] \o sep \o Join(Tail(strs), sep)

Rendered(f, e) == Join([k \in DOMAIN f.keys |-> Field(f.keys[k], e)], f.sep)

Position(segment) ==
    CASE segment = "0" -> Some(1)
      [] segment = "1" -> Some(2)
      [] OTHER         -> None

\* The lookup as described: each segment indexes a map by key or an array by
\* position; an absent segment ends it with not-found.
RECURSIVE Lookup(_, _)
Lookup(key, v) ==
    IF key = <<>> THEN Some(v)
    ELSE IF v.type = "object"
    THEN IF Head(key) \in DOMAIN v.fields THEN Lookup(Tail(key), v.fields[Head(key)])
         ELSE None
    ELSE IF v.type = "array"
    THEN LET p == Position(Head(key))
         IN IF p # None /\ p[1] \in DOMAIN v.items THEN Lookup(Tail(key), v.items[p[1]])
            ELSE None
    ELSE None

\* C24 (as stated): for every key path of the format and every event an actor
\* is given, JsonKey::get returns the value reached by indexing maps by key
\* and arrays by position, and not-found as soon as a segment is absent.
C24_LookupByKeyAndPosition ==
    \A i \in DOMAIN actors : \A k \in DOMAIN actors[i].received :
        \A n \in DOMAIN out.format.keys :
            JsonKey_get(out.format.keys[n], EventValue(actors[i].received[k]))
                = Lookup(out.format.keys[n], EventValue(actors[i].received[k]))

\* ------------------------------------------------- when the wait is scaled

\* The extract_results call that took the body of request i.
ExtractIndex(i) == Len(SelectSeq(SubSeq(http_log, 1, i), WasExtracted))

KeptOf(i) == extract_log[ExtractIndex(i)].kept

\* The iteration of tail's loop a request belongs to: the number of windows
\* drawn when it was sent.
IterationOf(i) == http_log[i].draws

\* The records extract_results returned in iteration `it` up to request n.
RECURSIVE IterationTotal(_, _)
IterationTotal(it, n) ==
    IF n = 0 THEN 0
    ELSE IterationTotal(it, n - 1)
         + (IF IterationOf(n) = it /\ WasExtracted(http_log[n]) THEN Len(KeptOf(n)) ELSE 0)

\* C25 (as stated): the wait is scaled once per iteration, after the last
\* request of the iteration, by the total number of records of the iteration.
C25_AsStated ==
    \A k \in DOMAIN scale_log :
        LET i == scale_log[k].requests
        IN /\ \A m \in DOMAIN scale_log :
                  m # k => IterationOf(scale_log[m].requests) # IterationOf(i)
           /\ \A j \in DOMAIN http_log : j > i => IterationOf(j) # IterationOf(i)
           /\ scale_log[k].cnt = IterationTotal(IterationOf(i), Len(http_log))

\* C25 (amended): the wait is scaled once for every page extract_results
\* accepted, the first page (after its records are pushed) and each
\* continuation page alike: the scaling acts on the tracker state made from
\* that page's response and counts the records returned for that page alone.
C25_ScalePerPage ==
    /\ \A k \in DOMAIN scale_log :
           LET e == scale_log[k]
               i == e.requests
           IN /\ WasExtracted(http_log[i])
              /\ e.cnt = Len(KeptOf(i))
              /\ e.limit = BatchSize
              /\ e.before = Some(RateLimitStatus_from(http_log[i].resp.hdr, http_log[i].sentAt))
              /\ \A m \in DOMAIN scale_log : scale_log[m].requests = i => m = k
    /\ \A i \in DOMAIN http_log :
           (/\ WasExtracted(http_log[i])
            /\ \/ http_log[i].kind = "GET"
               \/ i < Len(http_log)
               \/ (pc # "push_first" /\ tail_state # "failed"))
               => \E k \in DOMAIN scale_log : scale_log[k].requests = i

\* One iteration in which the wait was scaled twice: after a first page of two
\* records by 2, and after a continuation page with one new record by 1.
C25_Witness ==
    /\ Len(scale_log) = 2
    /\ IterationOf(scale_log[1].requests) = IterationOf(scale_log[2].requests)
    /\ http_log[scale_log[2].requests].kind = "GET"
    /\ scale_log[1].cnt = 2
    /\ scale_log[2].cnt = 1

\* --------------------------------------------- the tracker after a response

\* The tracker state the headers of exchange x stand for: period and reset in
\* seconds, the reset counted from the time the headers were read.
FromHeaders(x) ==
    [period |-> x.resp.hdr.period * 1000,
     remaining_budget |-> x.resp.hdr.remaining,
     next_request_allowed |-> x.sentAt + x.resp.hdr.reset * 1000]

\* C26: every response, success or not, replaces the tracker state by the one
\* its own headers stand for: that state is what a scaling after the response
\* starts from and, when nothing was scaled, what gates the next request. After
\* a 429 nothing is scaled and the next request is sent no earlier than the
\* reset time the 429 declared.
C26_TrackerFromResponse ==
    /\ \A i \in DOMAIN http_log :
           http_log[i].resp.transport = "ok" =>
               /\ \A k \in ScalesOf(i) : scale_log[k].before = Some(FromHeaders(http_log[i]))
               /\ (ScalesOf(i) = {} /\ i < Len(http_log))
                      => http_log[i + 1].gate = Some(FromHeaders(http_log[i]))
               /\ (ScalesOf(i) = {} /\ i = Len(http_log))
                      => last_limit_stats = Some(FromHeaders(http_log[i]))
               /\ Rejected(http_log[i]) =>
                      /\ ScalesOf(i) = {}
                      /\ i < Len(http_log) =>
                             http_log[i + 1].sentAt >= DeclaredReset(http_log[i])[1]

\* A 429 that declared a reset 2 s ahead with budget left, and the request
\* after it.
C26_Witness ==
    /\ Len(http_log) = 2
    /\ Rejected(http_log[1])
    /\ http_log[1].resp.hdr.reset = 2
    /\ http_log[1].resp.hdr.remaining = 1
    /\ http_log[2].sentAt >= http_log[1].sentAt + 2000

\* --------------------------------------------------- the windows of Follow

\* An initial request that was answered with success.
Answered(x) == x.kind = "POST" /\ x.resp.transport = "ok" /\ is_success(x.resp.status)

\* C27 (as stated): in Follow mode the windows of the initial requests that
\* were answered with success leave no gap: each starts no later than the end
\* of the one before it, whatever was answered 429 in between.
C27_NoGap ==
    mode = "Follow" =>
        \A i, j \in DOMAIN http_log :
            (/\ i < j /\ Answered(http_log[i]) /\ Answered(http_log[j])
             /\ \A m \in (i + 1)..(j - 1) : ~Answered(http_log[m]))
                => http_log[j].target[1] <= http_log[i].target[2]

\* -------------------------------------------------------------- unpack_tags

\* The tags of the event are still a list.
HasTagList(e) ==
    /\ "tags" \in DOMAIN e.attributes.fields
    /\ e.attributes.fields.tags.type = "array"

\* The key-to-value map the "key:value" tags of the served events stand for.
TagMap(n) ==
    CASE n = 1 -> JsonObject([pod |-> JsonString("a"), env |-> JsonString("")])
      [] n = 2 -> JsonObject([pod |-> JsonString("b")])
      [] OTHER -> JsonObject([pod |-> JsonString("a")])

\* The events the Tailer holds or has passed on, and those the pool and its
\* actors were given.
Downstream ==
    Range(pending) \cup Range(pushed) \cup Range(queue) \cup Range(inhand)
        \cup Range(consumed)
        \cup UNION {Range(actors[i].inbox) \cup Range(actors[i].received)
                        \cup Range(actors[i].written) : i \in DOMAIN actors}

\* C28: every event extract_results returns, and so every event that is pushed,
\* consumed or given to an actor, is the served event with its list of
\* "key:value" tags replaced by the key-to-value map (an event served without
\* a tag list is unchanged), and its id is in the seen-id set; none has its
\* tags in list form.
C28_TagsUnpacked ==
    /\ \A k \in DOMAIN extract_log : \A n \in DOMAIN extract_log[k].kept :
           LET e == extract_log[k].kept[n]
           IN /\ ~HasTagList(e)
              /\ e.id \in seen_event_ids
              /\ IF HasTagList(Ev(e.id))
                 THEN e = [Ev(e.id) EXCEPT !.attributes.fields.tags = TagMap(e.id)]
                 ELSE e = Ev(e.id)
    /\ \A e \in Downstream :
           /\ ~HasTagList(e)
           /\ \E k \in DOMAIN extract_log : \E n \in DOMAIN extract_log[k].kept :
                  extract_log[k].kept[n] = e

\* An actor has written the event served with the tags "pod:a:x" and 7, its
\* tags now the map pod -> "a", and the event served with "pod:a" and "env"
\* was consumed with the map pod -> "a", env -> "".
C28_Witness ==
    /\ \E i \in DOMAIN actors : \E k \in DOMAIN actors[i].written :
           /\ actors[i].written[k].id = 3
           /\ actors[i].written[k].attributes.fields.tags = JsonObject([pod |-> JsonString("a")])
    /\ \E k \in DOMAIN consumed :
           /\ consumed[k].id = 1
           /\ consumed[k].attributes.fields.tags
                  = JsonObject([pod |-> JsonString("a"), env |-> JsonString("")])

\* ------------------------------------------------------- finish after drain

\* C29: once finish has been called the Tailer's task has ended and its
\* channel is empty, every event the Tailer pushed has been consumed, in
\* order, and sent to the actor of its sink id; and as long as finish has not
\* been called (and consume has not failed) no actor's channel is closed.
C29_FinishAfterDrain ==
    /\ finish.state # "idle" =>
           /\ tail_state # "running"
           /\ queue = <<>>
           /\ inhand = None
           /\ consumed = pushed
           /\ \A k \in DOMAIN pushed : \E i \in DOMAIN actors :
                  /\ actors[i].id = get_sink_id(out, pushed[k])
                  /\ \E n \in DOMAIN actors[i].received : actors[i].received[n] = pushed[k]
    /\ (finish.state = "idle" /\ outcome # "err") =>
           \A i \in DOMAIN actors : actors[i].open

\* finish was called after a run that pushed five events to three actors.
C29_Witness ==
    /\ finish.state = "waiting"
    /\ Len(pushed) = 5
    /\ Len(actors) = 3
    /\ \E i \in DOMAIN actors : ~actors[i].open

\* ------------------------------------------------- the end of a Snapshot run

\* C30 (as stated): a Snapshot run whose requests are answered with success
\* after finitely many 429s ends with every record of the window's pages
\* delivered: the Tailer does not close its channel before the initial request
\* was answered with success, and when finish has returned every record the
\* server served has been sent to the actor of its sink id.
C30_SnapshotDelivers ==
    (mode = "Snapshot" /\ tail_state = "stopped") =>
        /\ \E i \in DOMAIN http_log : Answered(http_log[i])
        /\ finish.state = "returned" =>
               \A k \in DOMAIN Served : \E i \in DOMAIN actors :
                   /\ actors[i].id = get_sink_id(out, unpack_tags(Served[k]))
                   /\ \E n \in DOMAIN actors[i].received :
                          actors[i].received[n] = unpack_tags(Served[k])

\* ------------------------------------------- get_next of the single-file binary

\* C31 (as stated): over the get_next calls of one Tailer of src/main.rs, an
\* event an earlier call returned is not returned by a later call made within
\* 60 s, when every poll in between that the server answered with events
\* included it, also when polls in between were answered 429.
C31_NoRepeatAcrossCalls ==
    \A j, k \in DOMAIN extract_log :
        j < k /\ extract_log[k].at - extract_log[j].at < 60000 =>
            \A id \in Ids(extract_log[j].kept) :
                (\A m \in (j + 1)..k :
                     extract_log[m].rejected \/ id \in Ids(extract_log[m].got))
                    => id \notin Ids(extract_log[k].kept)

\* ------------------------------------------------------------- no deadlock

\* The Tailer is waiting for the server's answer to a request.
AwaitingServer ==
    /\ tail_state = "running"
    /\ \/ pc = "send_first"
       \/ pc = "follow" /\ next # None

\* The run is over: the Tailer's task has ended, its channel is drained and
\* finish has returned.
Terminal == tail_state # "running" /\ queue = <<>> /\ finish.state = "returned"

\* C32: as long as no actor has stopped taking messages (none has panicked), in
\* every state short of the end of the run in which the Tailer is not waiting
\* for the server, one of the Tailer, the consumer loop, finish or an actor can
\* take a step: the bounded channels between them never leave all of them
\* waiting for each other.
C32_NoDeadlock ==
    (/\ \A i \in DOMAIN actors : actors[i].state # "panicked"
     /\ ~Terminal
     /\ ~AwaitingServer)
        => ENABLED NextPool

\* Everything is backed up behind one actor: the Tailer waits at a full
\* channel, the consumer loop waits at the full channel of an actor, and that
\* actor has a message to write.
C32_Witness ==
    /\ tail_state = "running" /\ pending # <<>> /\ Len(queue) = ChannelCapacity
    /\ consumer = "consume"
    /\ \E i \in DOMAIN actors :
           /\ actors[i].id = get_sink_id(out, inhand[1])
           /\ Len(actors[i].inbox) = SinkCapacity
           /\ actors[i].state = "running"
    /\ \A i \in DOMAIN actors : actors[i].state # "panicked"

====
